---- MODULE Spec2Model ----
(***************************************************************************)
(* Task orchestration layer of vscode-multi-agent: the TaskManager         *)
(* registry (src/src/executors/TaskManager.ts), the one-shot CLIExecutor   *)
(* (src/src/executors/CLIExecutor.ts) with the external process it drives, *)
(* and the daemon call of executeTask's daemon branch.                     *)
(*                                                                         *)
(* Granularity.  Node runs one macrotask at a time; everything a handler   *)
(* does synchronously, and every promise continuation it schedules, runs   *)
(* before the next macrotask.  One action is therefore one API call or one *)
(* event callback together with the continuation of executeTask that it    *)
(* wakes (the code after `await`, the catch and the finally block).        *)
(*                                                                         *)
(* Callers.  Every call site of the repository creates a task and then     *)
(* executes it exactly once (claudeParticipant.ts:24-32 and 74-77,         *)
(* geminiParticipant.ts:24-32 and 74-77, InputPanelProvider.ts:53-57 and   *)
(* 73-82), so executeTask is applied to pending tasks and to unknown ids.  *)
(*                                                                         *)
(* Text is a sequence of fragments; string concatenation is \o.            *)
(***************************************************************************)
EXTENDS Integers, Sequences, FiniteSets, TLC

\* ---------------------------------------------------------------- bounds
MaxTasks == 1        \* tasks created in one run
MaxOut == 2          \* stdout chunks the processes of one run write
MaxErr == 1          \* stderr chunks the processes of one run write
MaxOutProgress == 20 \* stdout chunks written in a run of SpecProgress
MaxBatch == 6        \* tasks submitted in a run of SpecBatch
MaxInvocations == 2  \* execute calls made on the one executor of SpecExecutor
MaxPolls == 5        \* ticks of the completion-detection loop in a run of SpecDaemon
MaxFile == 2         \* fragments the tool writes after the baseline
MaxText == 2         \* fragments the output file holds in a run of SpecTick
MaxPair == 2         \* tasks created in a run of SpecPair
MaxHandles == 3      \* Task records handed out in a run of SpecSnapshot
MaxPrompts == 2      \* tasks created, and prompts sent, in a run of SpecSession
MaxStarting == 1     \* start() calls of a collaborator that sleep at the same time
MaxAutoPolls == 7    \* ticks of the loop in a run of SpecAuto
MaxRuns == 2         \* executeTask calls made for the one task of SpecRerun

\* ------------------------------------------------------ program constants
ProgressStep == 5
ProgressCap == 95
ProgressDone == 100
MaxConcurrentTasks == 5   \* multiAgent.maxConcurrentTasks, documented default
PollMs == 500             \* sleep of one tick of the completion-detection loop
StableTicks == 4          \* stable ticks after which the response is complete
ClaudeTimeoutMs == 120000 \* bound of the loop, claude daemon
GeminiTimeoutMs == 60000  \* bound of the loop, gemini daemon
BaselineSize == 1         \* size of the output file after `echo "" >`

AgentType == {"claude", "gemini"}
TaskStatus == {"pending", "running", "completed", "failed", "cancelled"}
Terminal == {"completed", "failed", "cancelled"}
Prompts == {"hello"}
StdoutChunks == {"hi"}
StderrChunks == {"boom"}
DaemonTexts == {<<"resp">>}

Ids == 1..MaxTasks
CallIds == 1..(MaxTasks + 1)   \* ids a collaborator may pass; the last one is never created
BatchIds == 1..MaxBatch
Invocations == 1..MaxInvocations

Min(a, b) == IF a < b THEN a ELSE b

VARIABLES
    tasks,           \* TaskManager.tasks: id -> Task record (DOMAIN = created ids)
    executors,       \* TaskManager.executors: ids that map to a tracked CLIExecutor
    outputChannels,  \* TaskManager.outputChannels: ids that have a log sink
    taskIdCounter,   \* TaskManager.taskIdCounter
    listening,       \* TRUE until removeAllListeners(): subscribers are attached
    bus,             \* what the last handler emitted, and what subscribers saw
    exec,            \* id -> fields of the CLIExecutor created for the task
    proc,            \* id -> the external process spawned for the task
    call,            \* id -> the executeTask call of the task and its outcome
    written,         \* chunks the processes have written so far: [out, err]
    ret,             \* the last API call or event and what it returned
    daemon,          \* the daemon singleton in use: its fields and its sendPrompt call
    session,         \* the multiplexer session and the output file of that daemon
    handles          \* the Task records the registry has returned to collaborators

vars == <<tasks, executors, outputChannels, taskIdCounter, listening, bus,
          exec, proc, call, written, ret, daemon, session, handles>>

\* ------------------------------------------------------------ error values
\* (error as Error).message, kept structured: kind, the code or bound it
\* carries, and the buffered text it embeds.
Err(kind, code, text) == [kind |-> kind, code |-> code, text |-> text]
NoError == Err("none", "", <<>>)
ExitError(code, out) == Err("exit", code, out)
TimeoutError == Err("timeout", "300000", <<>>)
SpawnError == Err("spawn", "ENOENT", <<>>)
SpawnThrow == Err("spawn", "E2BIG", <<>>)
DaemonError == Err("daemon", "", <<>>)

ExitText(code) == "Exit code: " \o code

\* ------------------------------------------------------------ initial state
NoExec == [created |-> FALSE, process |-> FALSE, isRunning |-> FALSE,
           output |-> <<>>, timer |-> FALSE]
\* wrote: the chunks the process has written, both streams, in the order
\* their 'data' events arrived (a chunk is the text data.toString() yields).
NoProc == [state |-> "none", code |-> "", signal |-> "none", wrote |-> <<>>]
\* spawns: processes spawned for the call; prompts: sendPrompt calls made for
\* it, per daemon singleton.
NoCall == [strategy |-> "none", state |-> "idle", result |-> <<>>, error |-> NoError,
           spawns |-> 0, prompts |-> [claude |-> 0, gemini |-> 0]]
NoBus == [tasksChanged |-> 0, taskProgress |-> 0, delivered |-> 0, progressDelivered |-> 0,
          snapshot |-> <<>>, unnotified |-> {}, overrun |-> FALSE]
Ret(op, id, val) == [op |-> op, id |-> id, val |-> val]

\* detectChoice's result; NoChoice is null
Choice(options, prompt) == [options |-> options, prompt |-> prompt]
NoChoice == Choice(<<>>, "")

\* A daemon as constructed (not running, interactive) with no sendPrompt in
\* flight.  phase: where sendPrompt stands ("idle" before the call,
\* "sleeping" in the loop's sleep, "asking" in askUserForChoice, "done"
\* once it returned); task: the task it runs for; elapsed: Date.now() -
\* startTime when the last handler of the call ended; polls: ticks run;
\* beforeSize, stableCount, lastSize, lastOutput: the loop's locals;
\* currentSize, cleanOutput, choice: the tick's locals kept across the await
\* of askUserForChoice; reason, result: how and with what it returned;
\* starting: the start() calls, made by a collaborator, that are in their
\* sleep(3000) ("starting" is also the phase of a sendPrompt whose own
\* start() is in that sleep).
NoDaemon(agent) ==
    [agent |-> agent, isRunning |-> FALSE, mode |-> "interactive", starting |-> 0,
     phase |-> "idle", task |-> 0, elapsed |-> 0, polls |-> 0,
     beforeSize |-> 0, stableCount |-> 0, lastSize |-> 0, lastOutput |-> <<>>,
     currentSize |-> 0, cleanOutput |-> <<>>, choice |-> NoChoice,
     reason |-> "none", result |-> <<>>]

\* No session.  file: what the output file holds after the baseline, as the
\* fragments the tool wrote; keys: the keystrokes the last handler sent;
\* seen: the ticks that have read the file since it last changed; cmds: the
\* commands on the session and its file (list, new-session, kill-session,
\* clear, send-keys) the last handler ran, each with its result.
\* warming: whose sleep(3000) the tool launched in the session is still
\* given to initialize: none, that of the sendPrompt call that launched it, or
\* that of a start() call of a collaborator, the n-th of those now asleep.
Warm == [by |-> "none", n |-> 0]
NoSession == [exists |-> FALSE, file |-> <<>>, keys |-> <<>>, seen |-> 0, cmds |-> <<>>,
              warming |-> Warm]
Cmd(name, result) == <<name, result>>

Init ==
    /\ daemon = NoDaemon("claude")
    /\ session = NoSession
    /\ tasks = <<>>
    /\ executors = {}
    /\ outputChannels = {}
    /\ taskIdCounter = 0
    /\ listening = TRUE
    /\ bus = NoBus
    /\ exec = [i \in Ids |-> NoExec]
    /\ proc = [i \in Ids |-> NoProc]
    /\ call = [i \in Ids |-> NoCall]
    /\ written = [out |-> 0, err |-> 0]
    /\ ret = Ret("init", 0, "void")
    /\ handles = {}

\* ------------------------------------------------- registry working copy
\* A handler runs to completion on a working copy m of the registry's
\* mutable state; Commit(m) stores it.  Begin also resets the per-handler
\* emission counters of the bus.
Begin ==
    [tasks |-> tasks, executors |-> executors,
     bus |-> [bus EXCEPT !.tasksChanged = 0, !.taskProgress = 0, !.delivered = 0,
                         !.progressDelivered = 0]]

Commit(m) ==
    /\ tasks' = m.tasks
    /\ executors' = m.executors
    /\ bus' = m.bus

\* A write of task.status.  The bus remembers the ids whose status was
\* written and not yet announced, and whether a status was written twice
\* without an announcement in between.
SetStatus(m, id, s) ==
    [m EXCEPT !.tasks[id].status = s,
              !.bus.unnotified = @ \cup {id},
              !.bus.overrun = @ \/ (id \in m.bus.unnotified)]

\* this.emit('tasksChanged'): subscribers, if any are left, read the
\* registry as it is at this point.
EmitTasksChanged(m) ==
    [m EXCEPT !.bus.tasksChanged = @ + 1,
              !.bus.delivered = IF listening THEN @ + 1 ELSE @,
              !.bus.snapshot = [i \in DOMAIN m.tasks |-> m.tasks[i].status],
              !.bus.unnotified = {}]

\* this.emit('taskProgress', taskId, progress)
EmitTaskProgress(m) ==
    [m EXCEPT !.bus.taskProgress = @ + 1,
              !.bus.progressDelivered = IF listening THEN @ + 1 ELSE @]

\* OnProgress with the cap of Math.min left out.
OnProgress_Uncapped(m, id, type, data) ==
    LET m1 == [m EXCEPT !.tasks[id].output = Append(@, data)]
        m2 == IF type = "output"
              THEN [m1 EXCEPT !.tasks[id].progress = @ + ProgressStep]
              ELSE m1
    IN  EmitTasksChanged(EmitTaskProgress(m2))

\* The 'progress' listener executeTask attaches to its executor.
OnProgress(m, id, type, data) ==
    LET m1 == [m EXCEPT !.tasks[id].output = Append(@, data)]
        m2 == IF type = "output"
              THEN [m1 EXCEPT !.tasks[id].progress = Min(@ + ProgressStep, ProgressCap)]
              ELSE m1
    IN  EmitTasksChanged(EmitTaskProgress(m2))

\* OnFulfilled without `task.output = result`: the streamed fragments stay.
OnFulfilled_KeepStreamed(m, id, result) ==
    LET m2 == SetStatus(m, id, "completed")
        m3 == [m2 EXCEPT !.tasks[id].progress = ProgressDone,
                         !.tasks[id].completedAt = TRUE]
        m4 == EmitTasksChanged(m3)
    IN  [m4 EXCEPT !.executors = @ \ {id}]

\* executeTask after its await returned `result`, with the finally block.
OnFulfilled(m, id, result) ==
    LET m1 == [m EXCEPT !.tasks[id].output = result]
        m2 == SetStatus(m1, id, "completed")
        m3 == [m2 EXCEPT !.tasks[id].progress = ProgressDone,
                         !.tasks[id].completedAt = TRUE]
        m4 == EmitTasksChanged(m3)
    IN  [m4 EXCEPT !.executors = @ \ {id}]

\* OnRejected without `task.error = ...`.
OnRejected_NoError(m, id, err) ==
    LET m1 == SetStatus(m, id, "failed")
        m2 == [m1 EXCEPT !.tasks[id].completedAt = TRUE]
        m3 == EmitTasksChanged(m2)
    IN  [m3 EXCEPT !.executors = @ \ {id}]

\* OnRejected with the notification emitted before the status is written.
OnRejected_EmitFirst(m, id, err) ==
    LET m1 == EmitTasksChanged(m)
        m2 == SetStatus(m1, id, "failed")
        m3 == [m2 EXCEPT !.tasks[id].error = err,
                         !.tasks[id].completedAt = TRUE]
    IN  [m3 EXCEPT !.executors = @ \ {id}]

\* executeTask's catch block, with the finally block.
OnRejected(m, id, err) ==
    LET m1 == SetStatus(m, id, "failed")
        m2 == [m1 EXCEPT !.tasks[id].error = err,
                         !.tasks[id].completedAt = TRUE]
        m3 == EmitTasksChanged(m2)
    IN  [m3 EXCEPT !.executors = @ \ {id}]

\* The promise of executeTask(id): settled at most once.
Resolved(c, result) == [c EXCEPT !.state = "resolved", !.result = result]
Rejected(c, err) == [c EXCEPT !.state = "rejected", !.error = err]

\* Callbacks queued with process.nextTick and promise continuations run
\* before any other macrotask: while the 'error' of a failed spawn or the
\* rejection of a spawn that threw is queued, only calls made in the same
\* synchronous run (createTask, executeTask) can come first.
TickPending == \E i \in DOMAIN proc : proc[i].state \in {"spawnfail", "spawnthrow"}

\* ---------------------------------------------------------- TaskManager API
\* A Task record returned by `op`: the registry returns the object it keeps
\* in its map, so the record is that object (ref: the id under which the map
\* holds it); taken is what it read when it was returned.
Handle(op, id, task) == [op |-> op, ref |-> id, taken |-> task]

NewTask(id, agent, prompt) ==
    [id |-> id, agent |-> agent, prompt |-> prompt, status |-> "pending",
     progress |-> 0, output |-> <<>>, completedAt |-> FALSE, error |-> NoError]

\* CreateTask with a generateTaskId that does not advance the counter.
CreateTask_NoIncrement(agent, prompt, maxTasks) ==
    /\ Len(tasks) < maxTasks
    /\ LET id == taskIdCounter + 1
           m1 == [Begin EXCEPT !.tasks = Append(@, NewTask(id, agent, prompt)),
                               !.bus.unnotified = @ \cup {id}]
       IN  /\ Commit(EmitTasksChanged(m1))
           /\ handles' = handles \cup {Handle("createTask", id, NewTask(id, agent, prompt))}
           /\ ret' = Ret("createTask", id, "task")
    /\ UNCHANGED <<outputChannels, taskIdCounter, listening, exec, proc, call, written,
                   daemon, session>>

CreateTask(agent, prompt, maxTasks) ==
    /\ taskIdCounter < maxTasks
    /\ LET id == taskIdCounter + 1
           m1 == [Begin EXCEPT !.tasks = Append(@, NewTask(id, agent, prompt)),
                               !.bus.unnotified = @ \cup {id}]
       IN  /\ Commit(EmitTasksChanged(m1))
           /\ taskIdCounter' = id
           /\ handles' = handles \cup {Handle("createTask", id, NewTask(id, agent, prompt))}
           /\ ret' = Ret("createTask", id, "task")
    /\ UNCHANGED <<outputChannels, listening, exec, proc, call, written, daemon, session>>

\* CLIExecutor.cancel() on executor e whose process is p: the process is
\* sent SIGTERM (taskkill /f /t on win32) and the call returns at once.
CancelExec(e) ==
    IF e.process /\ e.isRunning THEN [e EXCEPT !.isRunning = FALSE] ELSE e
CancelProc(e, p) ==
    IF e.process /\ e.isRunning /\ p.state = "running"
    THEN [p EXCEPT !.signal = "term"] ELSE p

\* spawn() of CLIExecutor.execute: the process starts, or the OS reports the
\* failure on the next tick ('error' event), or spawn throws and the promise
\* of execute is rejected at once (executeTask's catch block then runs as a
\* microtask).
SpawnOutcomes == {"ok", "enoent", "throw"}

\* ExecuteTaskNotFound with the lookup made after the log sink is created
\* and the change announced.
ExecuteTaskNotFound_LateCheck(id) ==
    /\ Commit(EmitTasksChanged(Begin))
    /\ outputChannels' = outputChannels \cup {id}
    /\ ret' = Ret("executeTask", id, "notfound")
    /\ UNCHANGED <<taskIdCounter, listening, exec, proc, call, written, daemon, session, handles>>

\* executeTask(taskId) when this.tasks.get(taskId) is undefined: it throws
\* before anything else happens.
ExecuteTaskNotFound(id) ==
    /\ Commit(Begin)
    /\ ret' = Ret("executeTask", id, "notfound")
    /\ UNCHANGED <<outputChannels, taskIdCounter, listening, exec, proc, call, written, daemon, session, handles>>

\* DaemonOf sending every prompt to the claude daemon.
DaemonOf_AlwaysClaude(agent) == "claude"

\* the daemon singleton the daemon branch picks for a task's agent
DaemonOf(agent) == IF agent = "gemini" THEN "gemini" ELSE "claude"

ExecuteTask(id, useDaemon, spawned) ==
    IF id \notin DOMAIN tasks
    THEN ExecuteTaskNotFound(id)
    ELSE /\ tasks[id].status = "pending"
         /\ outputChannels' = outputChannels \cup {id}
         /\ LET m1 == EmitTasksChanged(SetStatus(Begin, id, "running"))
                m2 == [m1 EXCEPT !.executors = @ \cup {id}]
                e  == [created |-> TRUE, process |-> spawned # "throw", isRunning |-> TRUE,
                       output |-> <<>>, timer |-> spawned # "throw"]
            IN  IF useDaemon
                THEN /\ Commit(m1)
                     /\ call' = [call EXCEPT ![id] =
                                    [NoCall EXCEPT !.strategy = "daemon",
                                                   !.state = "pending",
                                                   !.prompts[DaemonOf(tasks[id].agent)] = @ + 1]]
                     /\ UNCHANGED <<exec, proc>>
                ELSE /\ exec' = [exec EXCEPT ![id] = e]
                     /\ proc' = [proc EXCEPT ![id].state =
                                    CASE spawned = "ok" -> "running"
                                      [] spawned = "enoent" -> "spawnfail"
                                      [] OTHER -> "spawnthrow"]
                     /\ Commit(m2)
                     /\ call' = [call EXCEPT ![id] = [NoCall EXCEPT !.strategy = "process",
                                                                     !.state = "pending",
                                                                     !.spawns = @ + 1]]
         /\ ret' = Ret("executeTask", id, "promise")
         /\ UNCHANGED <<taskIdCounter, listening, written, daemon, session, handles>>

\* Tracked testing the task alone.
Tracked_TaskOnly(id) == id \in DOMAIN tasks

\* `if (executor && task)` of cancelTask
Tracked(id) == id \in executors /\ id \in DOMAIN tasks

\* OnCancel without `this.executors.delete(taskId)`.
OnCancel_KeepExecutor(m, id) ==
    LET m1 == SetStatus(m, id, "cancelled")
        m2 == [m1 EXCEPT !.tasks[id].completedAt = TRUE]
    IN  EmitTasksChanged(m2)

\* OnCancel with `this.executors.clear()` for the delete.
OnCancel_ClearAll(m, id) ==
    LET m1 == SetStatus(m, id, "cancelled")
        m2 == [m1 EXCEPT !.tasks[id].completedAt = TRUE,
                         !.executors = {}]
    IN  EmitTasksChanged(m2)

\* the body of that if, after executor.cancel()
OnCancel(m, id) ==
    LET m1 == SetStatus(m, id, "cancelled")
        m2 == [m1 EXCEPT !.tasks[id].completedAt = TRUE,
                         !.executors = @ \ {id}]
    IN  EmitTasksChanged(m2)

CancelTask(id) ==
    /\ ~TickPending
    /\ IF Tracked(id)
       THEN /\ exec' = [exec EXCEPT ![id] = CancelExec(@)]
            /\ proc' = [proc EXCEPT ![id] = CancelProc(exec[id], @)]
            /\ Commit(OnCancel(Begin, id))
            /\ ret' = Ret("cancelTask", id, "true")
       ELSE /\ Commit(Begin)
            /\ ret' = Ret("cancelTask", id, "false")
            /\ UNCHANGED <<exec, proc>>
    /\ UNCHANGED <<outputChannels, taskIdCounter, listening, call, written, daemon, session, handles>>

\* Dispose without removeAllListeners().
getTask(id) ==
    /\ Cardinality(handles) < MaxHandles
    /\ handles' = IF id \in DOMAIN tasks
                   THEN handles \cup {Handle("getTask", id, tasks[id])}
                   ELSE handles
    /\ ret' = Ret("getTask", id, IF id \in DOMAIN tasks THEN "task" ELSE "undefined")
    /\ UNCHANGED <<tasks, executors, outputChannels, taskIdCounter, listening, bus,
                   exec, proc, call, written, daemon, session>>

\* getAllTasks(): a new array of the objects in the map
Listed(op, ids) == {Handle(op, i, tasks[i]) : i \in ids}

getAllTasks ==
    /\ Cardinality(handles) < MaxHandles
    /\ handles' = handles \cup Listed("getAllTasks", DOMAIN tasks)
    /\ ret' = Ret("getAllTasks", 0, "tasks")
    /\ UNCHANGED <<tasks, executors, outputChannels, taskIdCounter, listening, bus,
                   exec, proc, call, written, daemon, session>>

getRunningTasks ==
    /\ Cardinality(handles) < MaxHandles
    /\ handles' = handles \cup
                     Listed("getRunningTasks",
                            {i \in DOMAIN tasks : tasks[i].status = "running"})
    /\ ret' = Ret("getRunningTasks", 0, "tasks")
    /\ UNCHANGED <<tasks, executors, outputChannels, taskIdCounter, listening, bus,
                   exec, proc, call, written, daemon, session>>

getCompletedTasks ==
    /\ Cardinality(handles) < MaxHandles
    /\ handles' = handles \cup
                     Listed("getCompletedTasks",
                            {i \in DOMAIN tasks :
                                tasks[i].status \in {"completed", "failed", "cancelled"}})
    /\ ret' = Ret("getCompletedTasks", 0, "tasks")
    /\ UNCHANGED <<tasks, executors, outputChannels, taskIdCounter, listening, bus,
                   exec, proc, call, written, daemon, session>>

\* what the holder of a returned record reads from it: the record is the
\* object of the map
Read(h) == tasks[h.ref]

\* a collaborator assigns to a field of a record it was returned
CollaboratorWrites(h, text) ==
    /\ Read(h).prompt # text
    /\ tasks' = [tasks EXCEPT ![h.ref].prompt = text]
    /\ ret' = Ret("write", h.ref, "void")
    /\ UNCHANGED <<executors, outputChannels, taskIdCounter, listening, bus,
                   exec, proc, call, written, daemon, session, handles>>

Dispose_KeepListeners ==
    /\ ~TickPending
    /\ listening
    /\ exec' = [i \in DOMAIN exec |-> IF i \in executors THEN CancelExec(exec[i]) ELSE exec[i]]
    /\ proc' = [i \in DOMAIN proc |->
                   IF i \in executors THEN CancelProc(exec[i], proc[i]) ELSE proc[i]]
    /\ Commit([Begin EXCEPT !.executors = {}])
    /\ outputChannels' = {}
    /\ ret' = Ret("dispose", 0, "void")
    /\ UNCHANGED <<taskIdCounter, listening, call, written, daemon, session, handles>>

Dispose ==
    /\ ~TickPending
    /\ listening
    /\ exec' = [i \in DOMAIN exec |-> IF i \in executors THEN CancelExec(exec[i]) ELSE exec[i]]
    /\ proc' = [i \in DOMAIN proc |->
                   IF i \in executors THEN CancelProc(exec[i], proc[i]) ELSE proc[i]]
    /\ Commit([Begin EXCEPT !.executors = {}])
    /\ outputChannels' = {}
    /\ listening' = FALSE
    /\ ret' = Ret("dispose", 0, "void")
    /\ UNCHANGED <<taskIdCounter, call, written, daemon, session, handles>>

\* ------------------------------------------------------ external process
\* Exit codes a process can end with: its own (0 or a failure code) or, once
\* it was sent the termination signal, none (code null); a process may
\* handle the signal and still end with a code of its own.
ExitCodes(signal) ==
    IF signal = "term" THEN {"0", "2", "null"} ELSE {"0", "2"}

\* ------------------------------------------------ CLIExecutor callbacks
\* Accumulate putting the new text in front of the buffer.
Accumulate_Prepend(buf, text) == <<text>> \o buf

\* this.output += text
Accumulate(buf, text) == Append(buf, text)

\* stdout 'data'
StdoutData(id, text, maxOut) ==
    /\ ~TickPending
    /\ proc[id].state = "running"
    /\ written.out < maxOut
    /\ written' = [written EXCEPT !.out = @ + 1]
    /\ proc' = [proc EXCEPT ![id].wrote = Append(@, text)]
    /\ exec' = [exec EXCEPT ![id].output = Accumulate(@, text)]
    /\ Commit(OnProgress(Begin, id, "output", text))
    /\ ret' = Ret("stdout", id, "void")
    /\ UNCHANGED <<outputChannels, taskIdCounter, listening, call, daemon, session, handles>>

\* stderr 'data'
StderrData(id, text, maxErr) ==
    /\ ~TickPending
    /\ proc[id].state = "running"
    /\ written.err < maxErr
    /\ written' = [written EXCEPT !.err = @ + 1]
    /\ proc' = [proc EXCEPT ![id].wrote = Append(@, text)]
    /\ exec' = [exec EXCEPT ![id].output = Accumulate(@, text)]
    /\ Commit(OnProgress(Begin, id, "error", text))
    /\ ret' = Ret("stderr", id, "void")
    /\ UNCHANGED <<outputChannels, taskIdCounter, listening, call, daemon, session, handles>>

\* process 'close': the process has ended with `code` and its pipes are
\* drained; the last event of a process.  After a failed spawn it carries
\* the negative errno.
Close(id, code) ==
    /\ ~TickPending
    /\ \/ proc[id].state = "running" /\ code \in ExitCodes(proc[id].signal)
       \/ proc[id].state = "errored" /\ code = "-2"
    /\ LET
           out == exec[id].output
           m1 == OnProgress(Begin, id, "complete", ExitText(code))
           pending == call[id].state = "pending"
       IN  /\ exec' = [exec EXCEPT ![id].timer = FALSE, ![id].isRunning = FALSE,
                                   ![id].process = FALSE]
           /\ IF ~pending
              THEN Commit(m1) /\ UNCHANGED call
              ELSE IF code = "0"
                   THEN /\ Commit(OnFulfilled(m1, id, out))
                        /\ call' = [call EXCEPT ![id] = Resolved(@, out)]
                   ELSE /\ Commit(OnRejected(m1, id, ExitError(code, out)))
                        /\ call' = [call EXCEPT ![id] = Rejected(@, ExitError(code, out))]
    /\ proc' = [proc EXCEPT ![id].state = "closed", ![id].code = code]
    /\ ret' = Ret("close", id, "void")
    /\ UNCHANGED <<outputChannels, taskIdCounter, listening, written, daemon, session, handles>>

\* process 'error': the spawn failed.
ErrorEvent(id) ==
    /\ proc[id].state = "spawnfail"
    /\ exec' = [exec EXCEPT ![id].timer = FALSE, ![id].isRunning = FALSE,
                            ![id].process = FALSE]
    /\ proc' = [proc EXCEPT ![id].state = "errored"]
    /\ IF call[id].state = "pending"
       THEN /\ Commit(OnRejected(Begin, id, SpawnError))
            /\ call' = [call EXCEPT ![id] = Rejected(@, SpawnError)]
       ELSE Commit(Begin) /\ UNCHANGED call
    /\ ret' = Ret("error", id, "void")
    /\ UNCHANGED <<outputChannels, taskIdCounter, listening, written, daemon, session, handles>>

\* executeTask's continuation after spawn threw inside execute: no process,
\* no timer and no handler exists.
SpawnThrown(id) ==
    /\ proc[id].state = "spawnthrow"
    /\ proc' = [proc EXCEPT ![id].state = "none"]
    /\ Commit(OnRejected(Begin, id, SpawnThrow))
    /\ call' = [call EXCEPT ![id] = Rejected(@, SpawnThrow)]
    /\ ret' = Ret("spawnThrown", id, "void")
    /\ UNCHANGED <<outputChannels, taskIdCounter, listening, exec, written, daemon, session, handles>>

\* Timeout rejecting without this.cancel(): the process is left alone.
Timeout_NoCancel(id) ==
    /\ ~TickPending
    /\ exec[id].timer
    /\ exec' = [exec EXCEPT ![id].timer = FALSE]
    /\ IF call[id].state = "pending"
       THEN /\ Commit(OnRejected(Begin, id, TimeoutError))
            /\ call' = [call EXCEPT ![id] = Rejected(@, TimeoutError)]
       ELSE Commit(Begin) /\ UNCHANGED call
    /\ ret' = Ret("timeout", id, "void")
    /\ UNCHANGED <<outputChannels, taskIdCounter, listening, proc, written, daemon, session, handles>>

\* Timeout cancelling without `reject(...)`: the call is left to the close.
Timeout_NoReject(id) ==
    /\ ~TickPending
    /\ exec[id].timer
    /\ exec' = [exec EXCEPT ![id] = [CancelExec(@) EXCEPT !.timer = FALSE]]
    /\ proc' = [proc EXCEPT ![id] = CancelProc(exec[id], @)]
    /\ Commit(Begin)
    /\ UNCHANGED call
    /\ ret' = Ret("timeout", id, "void")
    /\ UNCHANGED <<outputChannels, taskIdCounter, listening, written, daemon, session, handles>>

\* the setTimeout callback of execute
Timeout(id) ==
    /\ ~TickPending
    /\ exec[id].timer
    /\ exec' = [exec EXCEPT ![id] = [CancelExec(@) EXCEPT !.timer = FALSE]]
    /\ proc' = [proc EXCEPT ![id] = CancelProc(exec[id], @)]
    /\ IF call[id].state = "pending"
       THEN /\ Commit(OnRejected(Begin, id, TimeoutError))
            /\ call' = [call EXCEPT ![id] = Rejected(@, TimeoutError)]
       ELSE Commit(Begin) /\ UNCHANGED call
    /\ ret' = Ret("timeout", id, "void")
    /\ UNCHANGED <<outputChannels, taskIdCounter, listening, written, daemon, session, handles>>

\* ------------------------------------------------------------ daemon call
\* `await daemon.sendPrompt(task.prompt)` returns text ...
DaemonReturn(id, text) ==
    /\ ~TickPending
    /\ call[id].strategy = "daemon"
    /\ call[id].state = "pending"
    /\ Commit(OnFulfilled(Begin, id, text))
    /\ call' = [call EXCEPT ![id] = Resolved(@, text)]
    /\ ret' = Ret("daemonReturn", id, "void")
    /\ UNCHANGED <<outputChannels, taskIdCounter, listening, exec, proc, written, daemon, session, handles>>

\* ... or throws its wrapped error.
DaemonThrow(id) ==
    /\ ~TickPending
    /\ call[id].strategy = "daemon"
    /\ call[id].state = "pending"
    /\ Commit(OnRejected(Begin, id, DaemonError))
    /\ call' = [call EXCEPT ![id] = Rejected(@, DaemonError)]
    /\ ret' = Ret("daemonThrow", id, "void")
    /\ UNCHANGED <<outputChannels, taskIdCounter, listening, exec, proc, written, daemon, session, handles>>

\* ------------------------------------------------------- session daemons
\* The output file from the baseline on is a sequence of fragments, each a
\* run of whole lines or one terminal control sequence, so that the text
\* read is their concatenation and a pattern is found in the text iff it is
\* found in one of the fragments.
EscapeSequences == {"^[[0m"}
Fragments ==
    {"done\n", "Proceed? (y/n)\n", "Allow edit?\n", "1. A\n2. B\n",
     "1. Allow?\n2. Deny\n",
     "Press Enter\n", "hit enter\n", "Continue?\n", "Type yes/no\n"} \cup EscapeSequences

RECURSIVE Size(_)
\* bytes of a run of fragments
Size(file) == IF file = <<>> THEN 0 ELSE Len(Head(file)) + Size(Tail(file))

\* cleanOutput(): control sequences (and carriage returns) removed, the
\* result trimmed; the trimmed text is named by the fragments left.
IsText(f) == f \notin EscapeSequences
cleanOutput(file) == SelectSeq(file, IsText)

Has(out, S) == \E i \in 1..Len(out) : out[i] \in S

\* which fragments match which pattern of detectChoice
YesNoBracket == {"Proceed? (y/n)\n"}        \* /\(y\/n\)/i, /\[y\/N\]/i, /\[Y\/n\]/i
AllowDenyPermit == {"Allow edit?\n", "1. Allow?\n2. Deny\n"}   \* /allow|deny|permit/i
QuestionMark ==                                                  \* /\?/
    {"Proceed? (y/n)\n", "Allow edit?\n", "Continue?\n", "1. Allow?\n2. Deny\n"}
PressEnter == {"Press Enter\n"}             \* /press enter/i
HitEnter == {"hit enter\n"}                 \* /hit enter/i
ContinueQ == {"Continue?\n"}                \* /continue\?/i
YesNoPhrase == {"Type yes/no\n"}            \* /yes\/no/i, in the unused `patterns` only
\* lines of a fragment matching /^\s*\[?(\d+)\]?\s*[.):]\s*(.+)$/gm
NumberedIn(f) == IF f \in {"1. A\n2. B\n", "1. Allow?\n2. Deny\n"} THEN 2 ELSE 0

RECURSIVE NumberedLines(_)
NumberedLines(out) ==
    IF out = <<>> THEN 0 ELSE NumberedIn(Head(out)) + NumberedLines(Tail(out))

Numbered(n) ==
    Choice([i \in 1..n |-> ToString(i)], "Select an option (1-" \o ToString(n) \o ")")

\* ClaudeDetectChoice trying the numbered-list rule first.
ClaudeDetectChoice_NumberedFirst(out) ==
    IF NumberedLines(out) >= 2
    THEN Numbered(NumberedLines(out))
    ELSE IF Has(out, YesNoBracket)
    THEN Choice(<<"y", "n">>, "Permission required - Yes or No?")
    ELSE IF Has(out, AllowDenyPermit) /\ Has(out, QuestionMark)
    THEN Choice(<<"y", "n">>, "Allow this action?")
    ELSE IF Has(out, PressEnter) \/ Has(out, ContinueQ)
    THEN Choice(<<"enter">>, "Press Enter to continue")
    ELSE NoChoice

\* ClaudeDaemon.detectChoice
ClaudeDetectChoice(out) ==
    IF Has(out, YesNoBracket)
    THEN Choice(<<"y", "n">>, "Permission required - Yes or No?")
    ELSE IF Has(out, AllowDenyPermit) /\ Has(out, QuestionMark)
    THEN Choice(<<"y", "n">>, "Allow this action?")
    ELSE IF NumberedLines(out) >= 2
    THEN Numbered(NumberedLines(out))
    ELSE IF Has(out, PressEnter) \/ Has(out, ContinueQ)
    THEN Choice(<<"enter">>, "Press Enter to continue")
    ELSE NoChoice

\* GeminiDetectChoice with the allow/deny/permit rule of the claude daemon.
GeminiDetectChoice_WithAllow(out) ==
    IF Has(out, YesNoBracket)
    THEN Choice(<<"y", "n">>, "Yes or No?")
    ELSE IF Has(out, AllowDenyPermit) /\ Has(out, QuestionMark)
    THEN Choice(<<"y", "n">>, "Allow this action?")
    ELSE IF NumberedLines(out) >= 2
    THEN Numbered(NumberedLines(out))
    ELSE IF Has(out, PressEnter) \/ Has(out, HitEnter)
    THEN Choice(<<"enter">>, "Press Enter to continue")
    ELSE NoChoice

\* GeminiDaemon.detectChoice (its `patterns` array is never used)
GeminiDetectChoice(out) ==
    IF Has(out, YesNoBracket)
    THEN Choice(<<"y", "n">>, "Yes or No?")
    ELSE IF NumberedLines(out) >= 2
    THEN Numbered(NumberedLines(out))
    ELSE IF Has(out, PressEnter) \/ Has(out, HitEnter)
    THEN Choice(<<"enter">>, "Press Enter to continue")
    ELSE NoChoice

detectChoice(agent, out) ==
    IF agent = "gemini" THEN GeminiDetectChoice(out) ELSE ClaudeDetectChoice(out)

\* sendKey's keyMap
GeminiKeyMap ==
    ("enter" :> "Enter") @@ ("escape" :> "Escape") @@ ("tab" :> "Tab") @@
    ("up" :> "Up") @@ ("down" :> "Down") @@ ("ctrl+c" :> "C-c") @@ ("ctrl+d" :> "C-d")
ClaudeKeyMap == GeminiKeyMap @@ ("y" :> "y") @@ ("n" :> "n")
keyMap(agent) == IF agent = "gemini" THEN GeminiKeyMap ELSE ClaudeKeyMap

\* the key sendKey(key) hands to `tmux send-keys` (keys are lower case here)
tmuxKey(agent, key) ==
    IF key \in DOMAIN keyMap(agent) THEN keyMap(agent)[key] ELSE key

Options(choice) == {choice.options[i] : i \in 1..Len(choice.options)}

\* autoRespond sending the answer without the Enter that submits it.
autoRespond_NoEnter(agent, choice) ==
    IF "y" \in Options(choice)
    THEN <<tmuxKey(agent, "y")>>
    ELSE IF "enter" \in Options(choice)
    THEN <<tmuxKey(agent, "enter")>>
    ELSE IF Len(choice.options) > 0
    THEN <<tmuxKey(agent, choice.options[1])>>
    ELSE <<>>

\* autoRespond selecting the last numbered option.
autoRespond_LastOption(agent, choice) ==
    IF "y" \in Options(choice)
    THEN <<tmuxKey(agent, "y"), tmuxKey(agent, "enter")>>
    ELSE IF "enter" \in Options(choice)
    THEN <<tmuxKey(agent, "enter")>>
    ELSE IF Len(choice.options) > 0
    THEN <<tmuxKey(agent, choice.options[Len(choice.options)]), tmuxKey(agent, "enter")>>
    ELSE <<>>

\* autoRespond(choice): the keys it sends, in order
autoRespond(agent, choice) ==
    IF "y" \in Options(choice)
    THEN <<tmuxKey(agent, "y"), tmuxKey(agent, "enter")>>
    ELSE IF "enter" \in Options(choice)
    THEN <<tmuxKey(agent, "enter")>>
    ELSE IF Len(choice.options) > 0
    THEN <<tmuxKey(agent, choice.options[1]), tmuxKey(agent, "enter")>>
    ELSE <<>>

\* what askUserForChoice(choice) can return; "undefined" when the operator
\* dismisses the request
askUserForChoice(choice) ==
    IF "enter" \in Options(choice) THEN {"enter", "undefined"}
    ELSE Options(choice) \cup {"undefined"}

\* the keys the loop sends for the operator's decision
sendUserChoice(agent, userChoice) ==
    IF agent = "gemini"
    THEN <<tmuxKey(agent, userChoice), tmuxKey(agent, "enter")>>
    ELSE IF userChoice # "enter"
         THEN <<tmuxKey(agent, userChoice), tmuxKey(agent, "enter")>>
         ELSE <<tmuxKey(agent, userChoice)>>

\* the timeout sendPrompt passes to the loop
timeoutMs(agent) == IF agent = "gemini" THEN GeminiTimeoutMs ELSE ClaudeTimeoutMs

\* sendPrompt has returned `text`
Returned(d, reason, text) ==
    [d EXCEPT !.phase = "done", !.reason = reason, !.result = text]

\* LoopHead returning nothing when the bound has passed.
LoopHead_EmptyOnTimeout(d, file) ==
    IF d.elapsed < timeoutMs(d.agent)
    THEN [d EXCEPT !.phase = "sleeping"]
    ELSE Returned(d, "timeout", <<>>)

\* `while (Date.now() - startTime < timeoutMs)`: another tick, or the read
\* and return after the loop
LoopHead(d, file) ==
    IF d.elapsed < timeoutMs(d.agent)
    THEN [d EXCEPT !.phase = "sleeping"]
    ELSE Returned(d, "timeout", cleanOutput(file))

\* StabilityCheck returning at the first stable tick.
StabilityCheck_FirstStable(d, file) ==
    IF /\ d.currentSize > d.beforeSize
       /\ d.currentSize = d.lastSize
       /\ d.cleanOutput = d.lastOutput
    THEN Returned([d EXCEPT !.stableCount = @ + 1], "stable", d.cleanOutput)
    ELSE LoopHead([d EXCEPT !.stableCount = 0,
                            !.lastSize = d.currentSize,
                            !.lastOutput = d.cleanOutput], file)

\* StabilityCheck keeping the counter on a tick that saw a change.
StabilityCheck_NoReset(d, file) ==
    IF /\ d.currentSize > d.beforeSize
       /\ d.currentSize = d.lastSize
       /\ d.cleanOutput = d.lastOutput
    THEN IF d.stableCount + 1 >= StableTicks
         THEN Returned([d EXCEPT !.stableCount = @ + 1], "stable", d.cleanOutput)
         ELSE LoopHead([d EXCEPT !.stableCount = @ + 1], file)
    ELSE LoopHead([d EXCEPT !.lastSize = d.currentSize,
                            !.lastOutput = d.cleanOutput], file)

\* the stability rule at the end of a tick
StabilityCheck(d, file) ==
    IF /\ d.currentSize > d.beforeSize
       /\ d.currentSize = d.lastSize
       /\ d.cleanOutput = d.lastOutput
    THEN IF d.stableCount + 1 >= StableTicks
         THEN Returned([d EXCEPT !.stableCount = @ + 1], "stable", d.cleanOutput)
         ELSE LoopHead([d EXCEPT !.stableCount = @ + 1], file)
    ELSE LoopHead([d EXCEPT !.stableCount = 0,
                            !.lastSize = d.currentSize,
                            !.lastOutput = d.cleanOutput], file)

\* executeTask's daemon branch going on once sendPrompt has returned
SettleDaemonCall(d) ==
    IF d.phase = "done"
    THEN /\ Commit(OnFulfilled(Begin, d.task, d.result))
         /\ call' = [call EXCEPT ![d.task] = Resolved(@, d.result)]
    ELSE /\ Commit(Begin)
         /\ UNCHANGED call

\* setMode(mode), called before the prompt is sent
setMode(mode) ==
    /\ daemon.phase = "idle"
    /\ daemon.mode # mode
    /\ daemon' = [daemon EXCEPT !.mode = mode]
    /\ ret' = Ret("setMode", 0, "void")
    /\ UNCHANGED <<tasks, executors, outputChannels, taskIdCounter, listening, bus,
                   exec, proc, call, written, session, handles>>

\* -------------------------------------------------- session and commands
\* What the host does with a command of runWslCommand: "ok", every command
\* runs; "notmux", the shell runs but a tmux command fails (status 127, no
\* output: runWslCommand throws unless the command ends in `|| true`);
\* "nowsl", execSync itself fails or times out and every command throws.
Hosts == {"ok", "notmux", "nowsl"}

\* `tmux list-sessions 2>/dev/null | grep NAME || true`
ListSessions(host) ==
    IF host = "nowsl" THEN "threw"
    ELSE IF host = "ok" /\ session.exists THEN "found" ELSE "none"

\* `tmux new-session -d -s NAME ...`; tmux refuses a duplicate name
NewSession(host) == IF host = "ok" /\ ~session.exists THEN "ok" ELSE "threw"

\* StartSync launching without looking at the result of the query.
StartSync_NoAttach(host) ==
    LET l == ListSessions(host)
        n == NewSession(host)
    IN  IF l = "threw"
        THEN [cmds |-> <<Cmd("list", l)>>, isRunning |-> daemon.isRunning,
              exists |-> session.exists, out |-> "false"]
        ELSE [cmds |-> <<Cmd("list", l), Cmd("new-session", n)>>,
              isRunning |-> daemon.isRunning,
              exists |-> session.exists \/ n = "ok",
              out |-> IF n = "ok" THEN "sleep" ELSE "false"]

\* start() up to its return or its sleep(3000): the commands it ran, the
\* running flag and the session afterwards, and how it went on ("true",
\* "false", or "sleep" when it launched a session and waits for the tool).
StartSync(host) ==
    LET l == ListSessions(host)
        n == NewSession(host)
    IN  IF l = "threw"
        THEN [cmds |-> <<Cmd("list", l)>>, isRunning |-> daemon.isRunning,
              exists |-> session.exists, out |-> "false"]
        ELSE IF l = "found"
        THEN [cmds |-> <<Cmd("list", l)>>, isRunning |-> TRUE,
              exists |-> session.exists, out |-> "true"]
        ELSE [cmds |-> <<Cmd("list", l), Cmd("new-session", n)>>,
              isRunning |-> daemon.isRunning,
              exists |-> session.exists \/ n = "ok",
              out |-> IF n = "ok" THEN "sleep" ELSE "false"]

\* `echo "" > OUTPUT_FILE` and `tmux send-keys -t NAME "<prompt>" Enter`
ClearFile(host) == IF host = "nowsl" THEN "threw" ELSE "ok"
SendKeys(host, exists) == IF host = "ok" /\ exists THEN "ok" ELSE "threw"

\* The try block of sendPrompt(prompt) for task id, up to the first sleep of
\* the loop or to the error it throws; d is the daemon and exists the
\* session as start() left them, pre the commands start() ran.  When a
\* command throws, sendPrompt throws a daemon error and executeTask's catch
\* block runs.
PromptBody(d, exists, pre, id, host) ==
    LET c == ClearFile(host)
        k == SendKeys(host, exists)
        cmds == IF c = "threw" THEN <<Cmd("clear", c)>>
                ELSE <<Cmd("clear", c), Cmd("send-keys", k)>>
        sent == c = "ok" /\ k = "ok"
    IN  /\ session' = [session EXCEPT
                          !.exists = exists,
                          !.file = IF c = "ok" THEN <<>> ELSE @,
                          !.seen = 0,
                          !.keys = IF sent THEN <<tasks[id].prompt, "Enter">> ELSE <<>>,
                          !.cmds = pre \o cmds,
                          !.warming = IF daemon.phase = "starting" /\ @.by = "sendPrompt"
                                      THEN Warm ELSE @]
        /\ IF sent
           THEN /\ daemon' = LoopHead([d EXCEPT !.task = id,
                                                !.beforeSize = BaselineSize,
                                                !.lastSize = BaselineSize], <<>>)
                /\ Commit(Begin)
                /\ UNCHANGED call
                /\ ret' = Ret("sendPrompt", id, "promise")
           ELSE /\ daemon' = [d EXCEPT !.task = id, !.phase = "done", !.reason = "error"]
                /\ Commit(OnRejected(Begin, id, DaemonError))
                /\ call' = [call EXCEPT ![id] = Rejected(@, DaemonError)]
                /\ ret' = Ret("sendPrompt", id, "DaemonError")

\* the daemon with the locals of an earlier sendPrompt call forgotten
Fresh(d) ==
    [NoDaemon(d.agent) EXCEPT !.isRunning = d.isRunning, !.mode = d.mode,
                              !.starting = d.starting]

\* sendPrompt(prompt) of the daemon branch, called for task id: start() if
\* the daemon is not marked running (its result is not looked at), then the
\* try block, unless start() launched a session and sleeps first.
sendPrompt(id, host) ==
    /\ id \in DOMAIN tasks
    /\ call[id].strategy = "daemon"
    /\ call[id].state = "pending"
    /\ daemon.phase \in {"idle", "done"}   \* no other prompt is in flight
    /\ LET st == StartSync(host)
       IN  IF daemon.isRunning
           THEN PromptBody(Fresh(daemon), session.exists, <<>>, id, host)
           ELSE IF st.out = "sleep"
           THEN /\ daemon' = [Fresh(daemon) EXCEPT !.phase = "starting", !.task = id]
                /\ session' = [session EXCEPT !.exists = st.exists, !.file = <<>>,
                                              !.seen = 0, !.keys = <<>>, !.cmds = st.cmds,
                                              !.warming = [by |-> "sendPrompt", n |-> 0]]
                /\ Commit(Begin)
                /\ UNCHANGED call
                /\ ret' = Ret("sendPrompt", id, "promise")
           ELSE PromptBody([Fresh(daemon) EXCEPT !.isRunning = st.isRunning],
                           st.exists, st.cmds, id, host)
    /\ UNCHANGED <<outputChannels, taskIdCounter, listening, exec, proc, written, handles>>

\* the sleep(3000) of that start() is over: the daemon is marked running and
\* sendPrompt goes on with its try block
sendPromptStarted(host) ==
    /\ daemon.phase = "starting"
    /\ PromptBody([daemon EXCEPT !.isRunning = TRUE, !.phase = "idle"],
                  session.exists, <<>>, daemon.task, host)
    /\ UNCHANGED <<outputChannels, taskIdCounter, listening, exec, proc, written, handles>>

\* start() called by a collaborator
start(host) ==
    /\ daemon.starting < MaxStarting
    /\ LET st == StartSync(host)
       IN  /\ daemon' = [daemon EXCEPT !.isRunning = st.isRunning,
                                       !.starting = IF st.out = "sleep" THEN @ + 1 ELSE @]
           /\ session' = [session EXCEPT !.exists = st.exists, !.keys = <<>>,
                                         !.cmds = st.cmds,
                                         !.file = IF st.out = "sleep" THEN <<>> ELSE @,
                                         !.seen = IF st.out = "sleep" THEN 0 ELSE @,
                                         !.warming = IF st.out = "sleep"
                                                     THEN [by |-> "start",
                                                           n |-> daemon.starting + 1]
                                                     ELSE @]
           /\ ret' = Ret("start", 0, IF st.out = "sleep" THEN "promise" ELSE st.out)
    /\ UNCHANGED <<tasks, executors, outputChannels, taskIdCounter, listening, bus,
                   exec, proc, call, written, handles>>

\* the sleep(3000) of such a start() is over
startDone ==
    /\ daemon.starting > 0
    /\ daemon' = [daemon EXCEPT !.isRunning = TRUE, !.starting = @ - 1]
    /\ session' = [session EXCEPT !.keys = <<>>, !.cmds = <<>>,
                                  !.warming = IF @.by = "start"
                                              THEN IF @.n > 1
                                                   THEN [@ EXCEPT !.n = @ - 1] ELSE Warm
                                              ELSE @]
    /\ ret' = Ret("start", 0, "true")
    /\ UNCHANGED <<tasks, executors, outputChannels, taskIdCounter, listening, bus,
                   exec, proc, call, written, handles>>

\* `tmux kill-session -t NAME 2>/dev/null || true`
KillSession(host) == IF host = "nowsl" THEN "threw" ELSE "ok"

\* stop(), also what the daemon's dispose() runs
stop(host) ==
    /\ LET k == KillSession(host)
       IN  /\ daemon' = [daemon EXCEPT !.isRunning = IF k = "ok" THEN FALSE ELSE @]
           /\ session' = [session EXCEPT !.exists = IF host = "ok" THEN FALSE ELSE @,
                                         !.warming = IF host = "ok" THEN Warm ELSE @,
                                         !.keys = <<>>,
                                         !.cmds = <<Cmd("kill-session", k)>>]
    /\ ret' = Ret("stop", 0, "void")
    /\ UNCHANGED <<tasks, executors, outputChannels, taskIdCounter, listening, bus,
                   exec, proc, call, written, handles>>

\* sendKey without the test of the running flag.
sendKey_NoGuard(key, host) ==
    /\ LET k == SendKeys(host, session.exists)
       IN  /\ session' = [session EXCEPT
                             !.keys = IF k = "ok" THEN <<tmuxKey(daemon.agent, key)>> ELSE <<>>,
                             !.cmds = <<Cmd("send-keys", k)>>]
           /\ ret' = Ret("sendKey", 0, IF k = "ok" THEN "void" ELSE "CommandFailed")
    /\ UNCHANGED <<tasks, executors, outputChannels, taskIdCounter, listening, bus,
                   exec, proc, call, written, daemon, handles>>

\* sendKey(key) called by a collaborator
sendKey(key, host) ==
    /\ IF ~daemon.isRunning
       THEN /\ session' = [session EXCEPT !.keys = <<>>, !.cmds = <<>>]
            /\ ret' = Ret("sendKey", 0, "NotRunning")
       ELSE LET k == SendKeys(host, session.exists)
            IN  /\ session' = [session EXCEPT
                                  !.keys = IF k = "ok" THEN <<tmuxKey(daemon.agent, key)>>
                                           ELSE <<>>,
                                  !.cmds = <<Cmd("send-keys", k)>>]
                /\ ret' = Ret("sendKey", 0, IF k = "ok" THEN "void" ELSE "CommandFailed")
    /\ UNCHANGED <<tasks, executors, outputChannels, taskIdCounter, listening, bus,
                   exec, proc, call, written, daemon, handles>>

\* the session ends without the daemon: the tool exits, or the session is
\* killed from a terminal
SessionEnds ==
    /\ session.exists
    /\ session' = [session EXCEPT !.exists = FALSE, !.keys = <<>>, !.cmds = <<>>,
                                  !.warming = Warm]
    /\ ret' = Ret("sessionEnds", 0, "void")
    /\ UNCHANGED <<tasks, executors, outputChannels, taskIdCounter, listening, bus,
                   exec, proc, call, written, daemon, handles>>

\* the tool in the session writes to the output file
ToolWrites(f) ==
    /\ daemon.phase \in {"sleeping", "asking"}
    /\ Len(session.file) < MaxFile
    /\ session' = [session EXCEPT !.file = Append(@, f), !.seen = 0, !.keys = <<>>,
                                  !.cmds = <<>>]
    /\ ret' = Ret("toolWrites", 0, "void")
    /\ UNCHANGED <<tasks, executors, outputChannels, taskIdCounter, listening, bus,
                   exec, proc, call, written, daemon, handles>>

\* the reads at the start of a tick that ends `ms` after the last handler of
\* the call: size, text, cleaned text, choice
TickReads(d, file, ms) ==
    [d EXCEPT !.elapsed = @ + ms, !.polls = @ + 1,
              !.currentSize = BaselineSize + Size(file),
              !.cleanOutput = cleanOutput(file),
              !.choice = detectChoice(d.agent, cleanOutput(file))]

\* the rest of the tick, up to the next await that suspends the call
TickEnds(d1, file) ==
    IF d1.choice = NoChoice
    THEN StabilityCheck(d1, file)
    ELSE IF d1.mode = "auto"
         THEN LoopHead([d1 EXCEPT !.stableCount = 0], file)
         ELSE [d1 EXCEPT !.phase = "asking"]

\* One tick of waitForOutputWithChoiceDetection: the sleep ends `ms` after
\* the last handler of the call, the file is read and the tick runs up to
\* the next await that suspends it.
Tick(ms, maxPolls) ==
    /\ daemon.phase = "sleeping"
    /\ daemon.polls < maxPolls
    /\ LET d1 == TickReads(daemon, session.file, ms)
           auto == d1.choice # NoChoice /\ d1.mode = "auto"
           d2 == TickEnds(d1, session.file)
       IN  /\ daemon' = d2
           /\ session' = [session EXCEPT
                             !.keys = IF auto THEN autoRespond(d1.agent, d1.choice) ELSE <<>>,
                             !.seen = @ + 1, !.cmds = <<>>]
           /\ SettleDaemonCall(d2)
    /\ ret' = Ret("tick", daemon.task, "void")
    /\ UNCHANGED <<outputChannels, taskIdCounter, listening, exec, proc, written, handles>>

\* askUserForChoice returns `userChoice`, `ms` after it was called or after
\* the last wait, and the tick goes on
OperatorAnswers(userChoice, ms) ==
    /\ daemon.phase = "asking"
    /\ userChoice \in askUserForChoice(daemon.choice)
    /\ LET d1 == [daemon EXCEPT !.elapsed = @ + ms]
           d2 == IF userChoice # "undefined"
                 THEN LoopHead([d1 EXCEPT !.stableCount = 0], session.file)
                 ELSE StabilityCheck(d1, session.file)
       IN  /\ daemon' = d2
           /\ session' = [session EXCEPT
                             !.keys = IF userChoice # "undefined"
                                      THEN sendUserChoice(d1.agent, userChoice) ELSE <<>>,
                             !.cmds = <<>>]
           /\ SettleDaemonCall(d2)
    /\ ret' = Ret("operatorAnswers", daemon.task, userChoice)
    /\ UNCHANGED <<outputChannels, taskIdCounter, listening, exec, proc, written, handles>>

\* time passes while the request to the operator stays open
OperatorWaits(ms) ==
    /\ daemon.phase = "asking"
    /\ daemon.elapsed < timeoutMs(daemon.agent)
    /\ daemon' = [daemon EXCEPT !.elapsed = @ + ms]
    /\ session' = [session EXCEPT !.keys = <<>>, !.cmds = <<>>]
    /\ ret' = Ret("operatorWaits", daemon.task, "void")
    /\ UNCHANGED <<tasks, executors, outputChannels, taskIdCounter, listening, bus,
                   exec, proc, call, written, handles>>

\* ---------------------------------------------------------- specifications
Next ==
    \/ \E a \in AgentType, p \in Prompts : CreateTask(a, p, MaxTasks)
    \/ \E id \in CallIds, d \in BOOLEAN, s \in SpawnOutcomes : ExecuteTask(id, d, s)
    \/ \E id \in CallIds : CancelTask(id)
    \/ Dispose
    \/ \E id \in Ids, t \in StdoutChunks : StdoutData(id, t, MaxOut)
    \/ \E id \in Ids, t \in StderrChunks : StderrData(id, t, MaxErr)
    \/ \E id \in Ids, c \in {"0", "2", "null", "-2"} : Close(id, c)
    \/ \E id \in Ids : ErrorEvent(id)
    \/ \E id \in Ids : SpawnThrown(id)
    \/ \E id \in Ids : Timeout(id)
    \/ \E id \in Ids, t \in DaemonTexts : DaemonReturn(id, t)
    \/ \E id \in Ids : DaemonThrow(id)

Spec == Init /\ [][Next]_vars

\* The same with the event loop doing its part: a timer that is set fires,
\* and the callbacks queued for the next tick (the 'error' of a failed
\* spawn, the continuation of a spawn that threw) run.  Nothing makes a
\* process write or exit, or a collaborator call.
Fairness ==
    \A id \in Ids : /\ WF_vars(Timeout(id))
                    /\ WF_vars(ErrorEvent(id))
                    /\ WF_vars(SpawnThrown(id))

SpecFair == Init /\ [][Next]_vars /\ Fairness

\* One task whose process writes up to MaxOutProgress stdout chunks, enough
\* for the progress cap to be met (19 steps of 5) and passed.
NextProgress ==
    \/ \E a \in AgentType, p \in Prompts : CreateTask(a, p, 1)
    \/ \E id \in CallIds, d \in BOOLEAN, s \in SpawnOutcomes : ExecuteTask(id, d, s)
    \/ \E id \in CallIds : CancelTask(id)
    \/ Dispose
    \/ \E id \in Ids, t \in StdoutChunks : StdoutData(id, t, MaxOutProgress)
    \/ \E id \in Ids, t \in StderrChunks : StderrData(id, t, 1)
    \/ \E id \in Ids, c \in {"0", "2", "null", "-2"} : Close(id, c)
    \/ \E id \in Ids : ErrorEvent(id)
    \/ \E id \in Ids : SpawnThrown(id)
    \/ \E id \in Ids : Timeout(id)
    \/ \E id \in Ids, t \in DaemonTexts : DaemonReturn(id, t)
    \/ \E id \in Ids : DaemonThrow(id)

SpecProgress == Init /\ [][NextProgress]_vars

\* A batch: MultiTaskPanel._runBatch starts every task of the batch, each
\* through a participant's executeTask (createTask, then executeTask), with
\* multiAgent.useDaemon at its default (false); the processes run and exit
\* with code 0.
InitBatch ==
    /\ daemon = NoDaemon("claude")
    /\ session = NoSession
    /\ tasks = <<>>
    /\ executors = {}
    /\ outputChannels = {}
    /\ taskIdCounter = 0
    /\ listening = TRUE
    /\ bus = NoBus
    /\ exec = [i \in BatchIds |-> NoExec]
    /\ proc = [i \in BatchIds |-> NoProc]
    /\ call = [i \in BatchIds |-> NoCall]
    /\ written = [out |-> 0, err |-> 0]
    /\ ret = Ret("init", 0, "void")
    /\ handles = {}

NextBatch ==
    \/ \E a \in AgentType, p \in Prompts : CreateTask(a, p, MaxBatch)
    \/ \E id \in DOMAIN tasks : ExecuteTask(id, FALSE, "ok")
    \/ \E id \in DOMAIN tasks : Close(id, "0")

SpecBatch == InitBatch /\ [][NextBatch]_vars

\* ------------------------------------------------- tasks run side by side
\* Up to MaxPair tasks, each run by a process of its own
\* (multiAgent.useDaemon false) that starts or fails to start, writes,
\* ends, runs into its timeout or is cancelled, in any interleaving.
PairIds == 1..MaxPair

InitPair ==
    /\ daemon = NoDaemon("claude")
    /\ session = NoSession
    /\ tasks = <<>>
    /\ executors = {}
    /\ outputChannels = {}
    /\ taskIdCounter = 0
    /\ listening = TRUE
    /\ bus = NoBus
    /\ exec = [i \in PairIds |-> NoExec]
    /\ proc = [i \in PairIds |-> NoProc]
    /\ call = [i \in PairIds |-> NoCall]
    /\ written = [out |-> 0, err |-> 0]
    /\ ret = Ret("init", 0, "void")
    /\ handles = {}

NextPair ==
    \/ \E a \in AgentType, p \in Prompts : CreateTask(a, p, MaxPair)
    \/ \E id \in DOMAIN tasks, s \in {"ok", "enoent"} : ExecuteTask(id, FALSE, s)
    \/ \E id \in DOMAIN tasks : CancelTask(id)
    \/ \E id \in DOMAIN tasks, t \in StdoutChunks : StdoutData(id, t, MaxOut)
    \/ \E id \in DOMAIN tasks, t \in StderrChunks : StderrData(id, t, MaxErr)
    \/ \E id \in DOMAIN tasks, c \in {"0", "2", "null", "-2"} : Close(id, c)
    \/ \E id \in DOMAIN tasks : ErrorEvent(id)
    \/ \E id \in DOMAIN tasks : Timeout(id)

SpecPair == InitPair /\ [][NextPair]_vars

\* ------------------------------------------------------ returned records
\* One task run by a process, with collaborators that query the registry at
\* any moment, keep the records they are returned and may assign to them.
NextSnapshot ==
    \/ \E a \in AgentType, p \in Prompts : CreateTask(a, p, MaxTasks)
    \/ \E id \in DOMAIN tasks : ExecuteTask(id, FALSE, "ok")
    \/ \E id \in DOMAIN tasks : CancelTask(id)
    \/ \E id \in DOMAIN tasks, t \in StdoutChunks : StdoutData(id, t, MaxOut)
    \/ \E id \in DOMAIN tasks, c \in {"0", "2", "null"} : Close(id, c)
    \/ \E id \in CallIds : getTask(id)
    \/ getAllTasks
    \/ getRunningTasks
    \/ getCompletedTasks
    \/ \E h \in handles : CollaboratorWrites(h, "edited")

SpecSnapshot == Init /\ [][NextSnapshot]_vars

\* ------------------------------------------------- one daemon, one prompt
\* One daemon singleton and a task of its agent run with multiAgent.useDaemon
\* set.  A tick takes the poll interval or, when the host is slow, as long
\* as the shorter of the two loop bounds; the operator answers within a poll
\* interval of the request or of a wait of that length.
InitDaemon ==
    /\ daemon \in {NoDaemon(a) : a \in AgentType}
    /\ session = NoSession
    /\ tasks = <<>>
    /\ executors = {}
    /\ outputChannels = {}
    /\ taskIdCounter = 0
    /\ listening = TRUE
    /\ bus = NoBus
    /\ exec = [i \in Ids |-> NoExec]
    /\ proc = [i \in Ids |-> NoProc]
    /\ call = [i \in Ids |-> NoCall]
    /\ written = [out |-> 0, err |-> 0]
    /\ ret = Ret("init", 0, "void")
    /\ handles = {}

Durations == {PollMs, GeminiTimeoutMs}
ToolFragments == {"done\n", "^[[0m", "Proceed? (y/n)\n"}

NextDaemon ==
    \/ \E m \in {"interactive", "auto"} : setMode(m)
    \/ \E p \in Prompts : CreateTask(daemon.agent, p, 1)
    \/ \E id \in DOMAIN tasks : ExecuteTask(id, TRUE, "ok")
    \/ \E id \in DOMAIN tasks : sendPrompt(id, "ok")
    \/ sendPromptStarted("ok")
    \/ \E f \in ToolFragments : ToolWrites(f)
    \/ \E ms \in Durations : Tick(ms, MaxPolls)
    \/ \E u \in {"y", "n", "undefined"} : OperatorAnswers(u, PollMs)
    \/ OperatorWaits(GeminiTimeoutMs)

SpecDaemon == InitDaemon /\ [][NextDaemon]_vars

\* ------------------------------------------ the life of a daemon's session
\* One daemon singleton with the calls its collaborators can make on it in
\* any order (start, stop, sendKey, and sendPrompt through executeTask with
\* multiAgent.useDaemon set), on a host whose commands may fail, and a
\* session that may end by itself.  A prompt in the loop stays there: the
\* loop is the matter of SpecDaemon.
PromptIds == 1..MaxPrompts
Keys == {"y", "enter"}

InitSession ==
    /\ daemon \in {NoDaemon(a) : a \in AgentType}
    /\ session = NoSession
    /\ tasks = <<>>
    /\ executors = {}
    /\ outputChannels = {}
    /\ taskIdCounter = 0
    /\ listening = TRUE
    /\ bus = NoBus
    /\ exec = [i \in PromptIds |-> NoExec]
    /\ proc = [i \in PromptIds |-> NoProc]
    /\ call = [i \in PromptIds |-> NoCall]
    /\ written = [out |-> 0, err |-> 0]
    /\ ret = Ret("init", 0, "void")
    /\ handles = {}

NextSession ==
    \/ \E p \in Prompts : CreateTask(daemon.agent, p, MaxPrompts)
    \/ \E id \in DOMAIN tasks : ExecuteTask(id, TRUE, "ok")
    \/ \E id \in DOMAIN tasks, h \in Hosts : sendPrompt(id, h)
    \/ \E h \in Hosts : sendPromptStarted(h)
    \/ \E h \in Hosts : start(h)
    \/ startDone
    \/ \E h \in Hosts : stop(h)
    \/ \E k \in Keys, h \in Hosts : sendKey(k, h)
    \/ SessionEnds

SpecSession == InitSession /\ [][NextSession]_vars

\* ------------------------------------------------ two prompts, one daemon
\* Two tasks of the claude agent run with multiAgent.useDaemon set while the
\* daemon is running in its session: nothing keeps the second sendPrompt
\* from being called while the first is in its loop
\* (InputPanelProvider._runTask does not wait for a task to end).  Here
\* daemon[i] is the daemon as the sendPrompt call of task i sees it: the
\* fields of the singleton and the locals of that call.  The tool answers
\* the prompts it was sent, in fragments, in any order.
Response(i) == "answer " \o ToString(i) \o "\n"

InitConcurrent ==
    /\ daemon = [i \in PromptIds |-> [NoDaemon("claude") EXCEPT !.isRunning = TRUE]]
    /\ session = [NoSession EXCEPT !.exists = TRUE]
    /\ tasks = <<>>
    /\ executors = {}
    /\ outputChannels = {}
    /\ taskIdCounter = 0
    /\ listening = TRUE
    /\ bus = NoBus
    /\ exec = [i \in PromptIds |-> NoExec]
    /\ proc = [i \in PromptIds |-> NoProc]
    /\ call = [i \in PromptIds |-> NoCall]
    /\ written = [out |-> 0, err |-> 0]
    /\ ret = Ret("init", 0, "void")
    /\ handles = {}

\* SendPromptCall without the clearing of the output file.
SendPromptCall_KeepFile(i) ==
    /\ i \in DOMAIN tasks
    /\ call[i].strategy = "daemon"
    /\ call[i].state = "pending"
    /\ daemon[i].phase = "idle"
    /\ session' = [session EXCEPT !.seen = 0,
                                  !.keys = <<tasks[i].prompt, "Enter">>,
                                  !.cmds = <<Cmd("send-keys", SendKeys("ok", TRUE))>>]
    /\ daemon' = [daemon EXCEPT ![i] = LoopHead([@ EXCEPT !.task = i,
                                                          !.beforeSize = BaselineSize,
                                                          !.lastSize = BaselineSize], <<>>)]
    /\ ret' = Ret("sendPrompt", i, "promise")
    /\ UNCHANGED <<tasks, executors, outputChannels, taskIdCounter, listening, bus,
                   exec, proc, call, written, handles>>

\* sendPrompt for task i on the running daemon, to the first sleep of its
\* loop: the file is cleared, its size recorded, the prompt keys sent
SendPromptCall(i) ==
    /\ i \in DOMAIN tasks
    /\ call[i].strategy = "daemon"
    /\ call[i].state = "pending"
    /\ daemon[i].phase = "idle"
    /\ session' = [session EXCEPT !.file = <<>>, !.seen = 0,
                                  !.keys = <<tasks[i].prompt, "Enter">>,
                                  !.cmds = <<Cmd("clear", ClearFile("ok")),
                                             Cmd("send-keys", SendKeys("ok", TRUE))>>]
    /\ daemon' = [daemon EXCEPT ![i] = LoopHead([@ EXCEPT !.task = i,
                                                          !.beforeSize = BaselineSize,
                                                          !.lastSize = BaselineSize], <<>>)]
    /\ ret' = Ret("sendPrompt", i, "promise")
    /\ UNCHANGED <<tasks, executors, outputChannels, taskIdCounter, listening, bus,
                   exec, proc, call, written, handles>>

\* the tool writes a fragment of its answer to the prompt of task i
ToolResponds(i) ==
    /\ daemon[i].phase # "idle"
    /\ Len(session.file) < MaxFile
    /\ session' = [session EXCEPT !.file = Append(@, Response(i)), !.seen = 0,
                                  !.keys = <<>>, !.cmds = <<>>]
    /\ ret' = Ret("toolWrites", i, "void")
    /\ UNCHANGED <<tasks, executors, outputChannels, taskIdCounter, listening, bus,
                   exec, proc, call, written, daemon, handles>>

\* one tick of the loop of the call of task i
TickCall(i, ms) ==
    /\ daemon[i].phase = "sleeping"
    /\ daemon[i].polls < MaxPolls
    /\ LET d2 == TickEnds(TickReads(daemon[i], session.file, ms), session.file)
       IN  /\ daemon' = [daemon EXCEPT ![i] = d2]
           /\ SettleDaemonCall(d2)
    /\ session' = [session EXCEPT !.keys = <<>>, !.cmds = <<>>, !.seen = @ + 1]
    /\ ret' = Ret("tick", i, "void")
    /\ UNCHANGED <<outputChannels, taskIdCounter, listening, exec, proc, written, handles>>

NextConcurrent ==
    \/ \E p \in Prompts : CreateTask("claude", p, MaxPrompts)
    \/ \E id \in DOMAIN tasks : ExecuteTask(id, TRUE, "ok")
    \/ \E i \in PromptIds : SendPromptCall(i)
    \/ \E i \in PromptIds : ToolResponds(i)
    \/ \E i \in PromptIds : TickCall(i, PollMs)

SpecConcurrent == InitConcurrent /\ [][NextConcurrent]_vars

\* ------------------------------------------- the loop over a given output
\* The loop of a sendPrompt call, in either mode, from its first sleep, over
\* an output file the tool has filled and no longer changes: every text of
\* up to MaxText fragments.
RECURSIVE Texts(_)
Texts(n) ==
    IF n = 0 THEN {<<>>}
    ELSE Texts(n - 1) \cup {Append(t, f) : t \in {s \in Texts(n - 1) : Len(s) = n - 1},
                                             f \in Fragments}

InitTick ==
    /\ \E a \in AgentType, m \in {"interactive", "auto"} :
          /\ daemon = [NoDaemon(a) EXCEPT !.isRunning = TRUE, !.mode = m,
                                          !.phase = "sleeping", !.task = 1,
                                          !.beforeSize = BaselineSize,
                                          !.lastSize = BaselineSize]
          /\ tasks = <<[NewTask(1, a, "hello") EXCEPT !.status = "running"]>>
          /\ call = [i \in Ids |->
                       IF i = 1
                       THEN [NoCall EXCEPT !.strategy = "daemon", !.state = "pending",
                                           !.prompts[DaemonOf(a)] = 1]
                       ELSE NoCall]
    /\ \E t \in Texts(MaxText) :
          session = [NoSession EXCEPT !.exists = TRUE, !.file = t]
    /\ executors = {}
    /\ outputChannels = {1}
    /\ taskIdCounter = 1
    /\ listening = TRUE
    /\ bus = [NoBus EXCEPT !.tasksChanged = 1, !.delivered = 1, !.snapshot = <<"running">>]
    /\ exec = [i \in Ids |-> NoExec]
    /\ proc = [i \in Ids |-> NoProc]
    /\ written = [out |-> 0, err |-> 0]
    /\ ret = Ret("sendPrompt", 1, "promise")
    /\ handles = {Handle("createTask", 1, NewTask(1, daemon.agent, "hello"))}

NextTick ==
    \/ \E ms \in Durations : Tick(ms, MaxPolls)
    \/ \E u \in {"y", "n", "1", "2", "3", "4", "5", "6", "enter", "undefined"} :
          OperatorAnswers(u, PollMs)
    \/ OperatorWaits(GeminiTimeoutMs)

SpecTick == InitTick /\ [][NextTick]_vars

\* ------------------------------------------- the loop that answers itself
\* The loop of SpecTick with the daemon in auto mode, for more ticks than
\* the stability rule asks for.
InitAuto == InitTick /\ daemon.mode = "auto"

NextAuto == \E ms \in Durations : Tick(ms, MaxAutoPolls)

SpecAuto == InitAuto /\ [][NextAuto]_vars

\* ------------------------------------------------ one task, executed again
\* executeTask does not look at the status of the task it is given, so a
\* collaborator may call it again for the same id, while an earlier call is
\* pending or after the task has finished.  Here one task (id 1) is run on
\* the CLI executor; exec[k], proc[k] and call[k] are the CLIExecutor, the
\* process and the promise of the k-th executeTask call, and `executors`
\* holds the call whose executor the map holds under the task's id (a
\* Map.set replaces the entry an earlier call made).
Runs == 1..MaxRuns
Started == {k \in Runs : call[k].state # "idle"}

InitRerun ==
    /\ daemon = NoDaemon("claude")
    /\ session = NoSession
    /\ tasks = <<>>
    /\ executors = {}
    /\ outputChannels = {}
    /\ taskIdCounter = 0
    /\ listening = TRUE
    /\ bus = NoBus
    /\ exec = [k \in Runs |-> NoExec]
    /\ proc = [k \in Runs |-> NoProc]
    /\ call = [k \in Runs |-> NoCall]
    /\ written = [out |-> 0, err |-> 0]
    /\ ret = Ret("init", 0, "void")
    /\ handles = {}

\* `this.executors.delete(taskId)` of the finally block and of cancelTask:
\* the entry of the task goes, whichever call made it
Untrack(m) == [m EXCEPT !.executors = {}]

\* executeTask(1), CLI executor branch, the process spawned
ExecuteRun ==
    /\ 1 \in DOMAIN tasks
    /\ Cardinality(Started) < MaxRuns
    /\ LET k == Cardinality(Started) + 1
           m1 == EmitTasksChanged(SetStatus(Begin, 1, "running"))
       IN  /\ Commit([m1 EXCEPT !.executors = {k}])
           /\ exec' = [exec EXCEPT ![k] = [created |-> TRUE, process |-> TRUE,
                                            isRunning |-> TRUE, output |-> <<>>,
                                            timer |-> TRUE]]
           /\ proc' = [proc EXCEPT ![k].state = "running"]
           /\ call' = [call EXCEPT ![k] = [NoCall EXCEPT !.strategy = "process",
                                                          !.state = "pending",
                                                          !.spawns = @ + 1]]
           /\ ret' = Ret("executeTask", k, "promise")
    /\ outputChannels' = outputChannels \cup {1}
    /\ UNCHANGED <<taskIdCounter, listening, written, daemon, session, handles>>

\* 'close' of the process of call k, and executeTask going on after it
RunClose(k, code) ==
    /\ proc[k].state = "running"
    /\ code \in ExitCodes(proc[k].signal)
    /\ LET out == exec[k].output
           m1 == OnProgress(Begin, 1, "complete", ExitText(code))
       IN  /\ exec' = [exec EXCEPT ![k].timer = FALSE, ![k].isRunning = FALSE,
                                   ![k].process = FALSE]
           /\ IF call[k].state # "pending"
              THEN Commit(m1) /\ UNCHANGED call
              ELSE IF code = "0"
                   THEN /\ Commit(Untrack(OnFulfilled(m1, 1, out)))
                        /\ call' = [call EXCEPT ![k] = Resolved(@, out)]
                   ELSE /\ Commit(Untrack(OnRejected(m1, 1, ExitError(code, out))))
                        /\ call' = [call EXCEPT ![k] = Rejected(@, ExitError(code, out))]
    /\ proc' = [proc EXCEPT ![k].state = "closed", ![k].code = code]
    /\ ret' = Ret("close", k, "void")
    /\ UNCHANGED <<outputChannels, taskIdCounter, listening, written, daemon, session, handles>>

\* the setTimeout callback of the execute of call k
RunTimeout(k) ==
    /\ exec[k].timer
    /\ exec' = [exec EXCEPT ![k] = [CancelExec(@) EXCEPT !.timer = FALSE]]
    /\ proc' = [proc EXCEPT ![k] = CancelProc(exec[k], @)]
    /\ IF call[k].state = "pending"
       THEN /\ Commit(Untrack(OnRejected(Begin, 1, TimeoutError)))
            /\ call' = [call EXCEPT ![k] = Rejected(@, TimeoutError)]
       ELSE Commit(Begin) /\ UNCHANGED call
    /\ ret' = Ret("timeout", k, "void")
    /\ UNCHANGED <<outputChannels, taskIdCounter, listening, written, daemon, session, handles>>

\* cancelTask(1): it reaches the executor the map holds
RunCancelTask ==
    /\ 1 \in DOMAIN tasks
    /\ IF executors # {}
       THEN /\ exec' = [k \in Runs |-> IF k \in executors THEN CancelExec(exec[k])
                                       ELSE exec[k]]
            /\ proc' = [k \in Runs |-> IF k \in executors THEN CancelProc(exec[k], proc[k])
                                       ELSE proc[k]]
            /\ Commit(Untrack(OnCancel(Begin, 1)))
            /\ ret' = Ret("cancelTask", 1, "true")
       ELSE /\ Commit(Begin)
            /\ ret' = Ret("cancelTask", 1, "false")
            /\ UNCHANGED <<exec, proc>>
    /\ UNCHANGED <<outputChannels, taskIdCounter, listening, call, written, daemon, session,
                   handles>>

NextRerun ==
    \/ \E a \in AgentType, p \in Prompts : CreateTask(a, p, 1)
    \/ ExecuteRun
    \/ \E k \in Runs, code \in {"0", "2", "null"} : RunClose(k, code)
    \/ \E k \in Runs : RunTimeout(k)
    \/ RunCancelTask
    \/ Dispose

SpecRerun == InitRerun /\ [][NextRerun]_vars

\* ------------------------------------------------ one CLIExecutor, reused
\* A caller holding one CLIExecutor (exec[1]) and calling execute on it,
\* without a timeout option, while earlier invocations may still run.
\* proc[k] is the process spawned by the k-th invocation and call[k] the
\* promise it returned; the handlers attached by every invocation share the
\* executor's fields.  No 'progress' listener is attached.
InitExecutor ==
    /\ daemon = NoDaemon("claude")
    /\ session = NoSession
    /\ tasks = <<>>
    /\ executors = {}
    /\ outputChannels = {}
    /\ taskIdCounter = 0
    /\ listening = TRUE
    /\ bus = NoBus
    /\ exec = [i \in {1} |-> [NoExec EXCEPT !.created = TRUE]]
    /\ proc = [k \in Invocations |-> NoProc]
    /\ call = [k \in Invocations |-> NoCall]
    /\ written = [out |-> 0, err |-> 0]
    /\ ret = Ret("init", 0, "void")
    /\ handles = {}

Invoked == {k \in Invocations : call[k].state # "idle"}

\* CLIExecutor.execute(): no check of isRunning is made.
Execute ==
    /\ Cardinality(Invoked) < MaxInvocations
    /\ LET k == Cardinality(Invoked) + 1
       IN  /\ exec' = [exec EXCEPT ![1].isRunning = TRUE, ![1].output = <<>>,
                                   ![1].process = TRUE]
           /\ proc' = [proc EXCEPT ![k].state = "running"]
           /\ call' = [call EXCEPT ![k] = [NoCall EXCEPT !.strategy = "process",
                                                          !.state = "pending",
                                                          !.spawns = @ + 1]]
           /\ ret' = Ret("execute", k, "promise")
    /\ UNCHANGED <<tasks, executors, outputChannels, taskIdCounter, listening, bus, written, daemon, session, handles>>

\* stdout 'data' of the process of invocation k
ExecutorStdout(k, text) ==
    /\ proc[k].state = "running"
    /\ written.out < MaxOut
    /\ written' = [written EXCEPT !.out = @ + 1]
    /\ proc' = [proc EXCEPT ![k].wrote = Append(@, text)]
    /\ exec' = [exec EXCEPT ![1].output = Accumulate(@, text)]
    /\ ret' = Ret("stdout", k, "void")
    /\ UNCHANGED <<tasks, executors, outputChannels, taskIdCounter, listening, bus, call, daemon, session, handles>>

\* 'close' of the process of invocation k
ExecutorClose(k, code) ==
    /\ proc[k].state = "running"
    /\ code \in ExitCodes(proc[k].signal)
    /\ exec' = [exec EXCEPT ![1].isRunning = FALSE, ![1].process = FALSE]
    /\ proc' = [proc EXCEPT ![k].state = "closed", ![k].code = code]
    /\ call' = [call EXCEPT ![k] =
                   IF code = "0" THEN Resolved(@, exec[1].output)
                   ELSE Rejected(@, ExitError(code, exec[1].output))]
    /\ ret' = Ret("close", k, "void")
    /\ UNCHANGED <<tasks, executors, outputChannels, taskIdCounter, listening, bus, written, daemon, session, handles>>

NextExecutor ==
    \/ Execute
    \/ \E k \in Invocations, t \in StdoutChunks : ExecutorStdout(k, t)
    \/ \E k \in Invocations, c \in {"0", "2"} : ExecutorClose(k, c)

SpecExecutor == InitExecutor /\ [][NextExecutor]_vars

\* ======================================================================
\* Claims
\* ======================================================================
InFlight == daemon.phase \in {"sleeping", "asking"}
JustReturned(reason) == daemon.reason = "none" /\ daemon'.reason = reason
Running == {i \in DOMAIN tasks : tasks[i].status = "running"}
Settled(i) == call[i].state \in {"resolved", "rejected"}
IsPrefix(a, b) == Len(a) <= Len(b) /\ SubSeq(b, 1, Len(a)) = a

\* C1 (as claimed): a task's status only ever changes pending -> running and
\* running -> completed/failed/cancelled; a terminal status never changes.
C1_StatusFollowsStateMachine ==
    [][\A i \in DOMAIN tasks :
         tasks'[i].status # tasks[i].status =>
            \/ tasks[i].status = "pending" /\ tasks'[i].status = "running"
            \/ tasks[i].status = "running" /\ tasks'[i].status \in Terminal]_vars

\* C2 (as claimed): cancelTask on a task running on a CLIExecutor returns
\* true, leaves the task cancelled with a completion timestamp, and the
\* external process is no longer alive when it returns.
C2_CancelEndsProcess ==
    [][\A i \in DOMAIN tasks :
         (ret'.op = "cancelTask" /\ ret'.id = i /\ tasks[i].status = "running"
            /\ call[i].strategy = "process")
         => /\ ret'.val = "true"
            /\ tasks'[i].status = "cancelled"
            /\ tasks'[i].completedAt
            /\ proc'[i].state # "running"]_vars

\* C3: cancelTask(id) with no executor tracked for id returns false, changes
\* no task (nor the executor map) and emits no notification.
C3_CancelUntrackedIsNoOp ==
    [][\A id \in CallIds :
         (ret'.op = "cancelTask" /\ ret'.id = id /\ id \notin executors)
         => /\ ret'.val = "false"
            /\ tasks' = tasks
            /\ executors' = executors
            /\ bus'.tasksChanged = 0
            /\ bus'.taskProgress = 0]_vars

\* C3 witness: cancelTask has just returned false for a task that is running
\* on the daemon.
C3_Witness ==
    /\ ret.op = "cancelTask" /\ ret.val = "false" /\ ret.id \in DOMAIN tasks
    /\ tasks[ret.id].status = "running"
    /\ call[ret.id].strategy = "daemon"

\* C4 (as claimed): cancelTask on a task running on the daemon sets its
\* status to cancelled and leaves the daemon call in flight.
C4_CancelDaemonTaskSetsCancelled ==
    [][\A i \in DOMAIN tasks :
         (ret'.op = "cancelTask" /\ ret'.id = i /\ tasks[i].status = "running"
            /\ call[i].strategy = "daemon" /\ call[i].state = "pending")
         => /\ tasks'[i].status = "cancelled"
            /\ call'[i].state = "pending"]_vars

\* C5: once executeTask has resolved, the task is completed with progress
\* 100 and a completion timestamp, its output is exactly the returned text,
\* and for a process that text is everything the process wrote.
C5_SuccessCompletes ==
    \A i \in DOMAIN tasks :
        call[i].state = "resolved" =>
            /\ tasks[i].status = "completed"
            /\ tasks[i].progress = ProgressDone
            /\ tasks[i].completedAt
            /\ tasks[i].output = call[i].result
            /\ call[i].strategy = "process" => call[i].result = exec[i].output

\* C5 witness: a process wrote "hi" and exited 0.
C5_Witness ==
    \E i \in DOMAIN tasks :
        /\ call[i].strategy = "process" /\ call[i].state = "resolved"
        /\ proc[i].state = "closed" /\ proc[i].code = "0"
        /\ tasks[i].output = <<"hi">>

\* C6: once executeTask has rejected, the task is failed with the rejection's
\* error as its error text and a completion timestamp; for a non-zero exit
\* the error carries the exit code and the buffered text, and the task's
\* output still starts with that text.
C6_FailureFails ==
    \A i \in DOMAIN tasks :
        call[i].state = "rejected" =>
            /\ tasks[i].status = "failed"
            /\ tasks[i].error = call[i].error
            /\ tasks[i].error # NoError
            /\ tasks[i].completedAt
            /\ call[i].error.kind = "exit" =>
                  /\ call[i].error.code = proc[i].code
                  /\ call[i].error.code # "0"
                  /\ call[i].error.text = exec[i].output
                  /\ IsPrefix(exec[i].output, tasks[i].output)

\* C6 witness: a process wrote "boom" and exited with code 2.
C6_Witness ==
    \E i \in DOMAIN tasks :
        /\ call[i].state = "rejected"
        /\ call[i].error = ExitError("2", <<"boom">>)
        /\ tasks[i].status = "failed"

C8_NotificationFollowsMutation ==
    /\ bus.unnotified = {}
    /\ ~bus.overrun
    /\ bus.snapshot = [i \in DOMAIN tasks |-> tasks[i].status]
    /\ listening => bus.delivered = bus.tasksChanged

\* C8 witness: a close that announced its complete fragment and then the
\* failure of the task.
C8_Witness ==
    /\ ret.op = "close"
    /\ bus.tasksChanged = 2
    /\ bus.delivered = 2
    /\ ret.id \in DOMAIN tasks
    /\ tasks[ret.id].status = "failed"
    /\ bus.snapshot[ret.id] = "failed"

\* C9: an executor is tracked only for a running task; once executeTask has
\* settled, and when cancelTask has just returned true, none is tracked for
\* that id.
C9_ExecutorTrackedOnlyWhileRunning ==
    /\ \A i \in executors : i \in DOMAIN tasks /\ tasks[i].status = "running"
    /\ \A i \in Ids : Settled(i) => i \notin executors
    /\ (ret.op = "cancelTask" /\ ret.val = "true") => ret.id \notin executors

\* C9 witness: cancelTask has just returned true for a task whose process is
\* still there.
C9_Witness ==
    /\ ret.op = "cancelTask" /\ ret.val = "true"
    /\ proc[ret.id].state = "running"
    /\ executors = {}

\* C10: executeTask with an unknown id fails with not-found and changes no
\* task, executor, process, daemon call or log sink, and emits nothing.
C10_UnknownIdNotFound ==
    [][\A id \in CallIds :
         (ret'.op = "executeTask" /\ ret'.id = id /\ id \notin DOMAIN tasks)
         => /\ ret'.val = "notfound"
            /\ UNCHANGED <<tasks, executors, outputChannels, exec, proc, call>>
            /\ bus'.tasksChanged = 0
            /\ bus'.taskProgress = 0]_vars

\* C10 witness: not-found has just been returned while a task is running.
C10_Witness ==
    /\ ret.op = "executeTask" /\ ret.val = "notfound"
    /\ ret.id \notin DOMAIN tasks
    /\ \E i \in DOMAIN tasks : tasks[i].status = "running"
\* C11: every executeTask call has used exactly one strategy: one process
\* spawned and no prompt sent, or one prompt sent to the daemon of the task's
\* own agent and no process spawned; this stays so after the call has failed
\* or timed out (nothing is spawned or sent again).
C11_OneStrategyPerCall ==
    \A i \in DOMAIN tasks :
        LET c == call[i]
            sent == c.prompts.claude + c.prompts.gemini
        IN  /\ c.strategy = "none" => c.spawns = 0 /\ sent = 0
            /\ c.strategy = "process" => c.spawns = 1 /\ sent = 0
            /\ c.strategy = "daemon" =>
                  c.spawns = 0 /\ sent = 1 /\ c.prompts[tasks[i].agent] = 1
            /\ tasks[i].status # "pending" => c.strategy # "none"

\* C11 witness: the daemon call of a gemini task has failed.
C11_Witness ==
    \E i \in DOMAIN tasks :
        /\ tasks[i].agent = "gemini"
        /\ call[i].strategy = "daemon"
        /\ call[i].state = "rejected"
        /\ call[i].prompts.gemini = 1
\* C12 (as claimed): the number of tasks in status running never exceeds
\* multiAgent.maxConcurrentTasks.
C12_RunningWithinLimit ==
    Cardinality(Running) <= MaxConcurrentTasks
\* C13: the executor's buffer is at all times the concatenation of the
\* chunks of both streams in arrival order; a close emits the complete
\* fragment noting the exit code, and when it settles execute it resolves
\* with that buffer on exit code 0 and otherwise fails with an error that
\* carries the exit code and that buffer.
C13_BufferInArrivalOrder ==
    /\ [](\A i \in DOMAIN exec : exec[i].output = proc[i].wrote)
    /\ [][\A i \in DOMAIN tasks :
            (ret'.op = "close" /\ ret'.id = i) =>
               /\ bus'.taskProgress = 1
               /\ \/ tasks'[i].status = "completed"
                  \/ tasks'[i].output = Append(tasks[i].output, ExitText(proc'[i].code))
               /\ call[i].state = "pending" =>
                     IF proc'[i].code = "0"
                     THEN /\ call'[i].state = "resolved"
                          /\ call'[i].result = proc[i].wrote
                     ELSE /\ call'[i].state = "rejected"
                          /\ call'[i].error = ExitError(proc'[i].code, proc[i].wrote)]_vars

\* C13 witness: a process wrote stdout, stderr, stdout and exited with code
\* 0, and execute resolved with the three chunks in that order.
C13_Witness ==
    \E i \in DOMAIN tasks :
        /\ ret.op = "close" /\ ret.id = i
        /\ call[i].state = "resolved"
        /\ call[i].result = <<"hi", "boom", "hi">>
\* C14: when the timer of execute fires, the process is sent the termination
\* signal and the call fails with the timeout error carrying the bound
\* (300000 ms), the task becoming failed; a settled call never changes
\* again, and after a timeout no later event (close, error) changes the
\* call's outcome or the task's status.
C14_TimeoutSettlesOnce ==
    [][\A i \in DOMAIN tasks :
         /\ (ret'.op = "timeout" /\ ret'.id = i) =>
               /\ call'[i].state = "rejected"
               /\ call'[i].error.kind = "timeout"
               /\ call'[i].error.code = "300000"
               /\ proc[i].state = "running" => proc'[i].signal = "term"
               /\ ~exec'[i].isRunning
               /\ tasks'[i].status = "failed"
         /\ Settled(i) => call'[i] = call[i]
         /\ (call[i].state = "rejected" /\ call[i].error.kind = "timeout") =>
               tasks'[i].status = "failed"]_vars

\* C14 witness: after the timeout the process still exited with code 0, and
\* the close left the call rejected and the task failed.
C14_Witness ==
    /\ ret.op = "close" /\ ret.id \in DOMAIN tasks
    /\ proc[ret.id].code = "0"
    /\ call[ret.id].state = "rejected"
    /\ call[ret.id].error = TimeoutError
    /\ tasks[ret.id].status = "failed"
\* C15 (as claimed): an execute call on an executor whose earlier invocation
\* is still running fails with an invalid-state error, spawns nothing and
\* leaves the earlier invocations' processes, the buffer and their outcomes
\* untouched.
C15_SecondExecuteInvalidState ==
    [][(ret'.op = "execute" /\ exec[1].isRunning) =>
          /\ call'[ret'.id].state = "rejected"
          /\ call'[ret'.id].error.kind = "invalidState"
          /\ proc'[ret'.id].state = "none"
          /\ exec'[1].output = exec[1].output
          /\ \A j \in Invoked : call'[j] = call[j] /\ proc'[j] = proc[j]]_vars
C17_TimeoutReturnsPartial ==
    /\ [](daemon.phase = "done" =>
             /\ call[daemon.task].state = "resolved"
             /\ tasks[daemon.task].status = "completed")
    /\ [][JustReturned("timeout")
           => /\ daemon'.elapsed >= timeoutMs(daemon.agent)
              /\ daemon'.stableCount < StableTicks
              /\ daemon'.result = cleanOutput(session.file)
              /\ call'[daemon.task].state = "resolved"
              /\ call'[daemon.task].result = cleanOutput(session.file)
              /\ tasks'[daemon.task].status = "completed"
              /\ tasks'[daemon.task].output = cleanOutput(session.file)
              /\ tasks'[daemon.task].error = NoError]_vars

\* C17 witness: the bound passed on a tick that saw fresh output, and the
\* task completed with that output.
C17_Witness ==
    /\ daemon.reason = "timeout"
    /\ daemon.stableCount = 0
    /\ daemon.result = <<"done\n">>
    /\ tasks[daemon.task].status = "completed"
    /\ tasks[daemon.task].output = <<"done\n">>

\* C18 (as claimed): a step of a sendPrompt call that ends with the
\* per-agent bound (120 s claude, 60 s gemini) passed has returned, in auto
\* and in interactive mode, whether or not the operator has answered.
C18_LoopBoundedByTimeout ==
    [][(/\ InFlight
        /\ daemon' # daemon
        /\ daemon'.elapsed >= timeoutMs(daemon.agent))
       => daemon'.phase = "done"]_vars

\* C19: in auto mode a tick that detects a yes/no choice sends y and Enter
\* in that tick, resets the stability counter and does not ask the
\* operator; in auto mode the operator is never being asked.
C19_AutoAnswersInSameTick ==
    /\ [](daemon.mode = "auto" => daemon.phase # "asking")
    /\ [][(/\ ret'.op = "tick"
            /\ daemon.mode = "auto"
            /\ detectChoice(daemon.agent, cleanOutput(session.file)).options = <<"y", "n">>)
           => /\ session'.keys = <<"y", "Enter">>
              /\ daemon'.phase # "asking"
              /\ daemon'.stableCount = 0]_vars

\* C19 witness: an auto-mode tick has just answered a yes/no prompt and the
\* loop goes on.
C19_Witness ==
    /\ ret.op = "tick"
    /\ daemon.mode = "auto"
    /\ daemon.choice.options = <<"y", "n">>
    /\ session.keys = <<"y", "Enter">>
    /\ daemon.phase = "sleeping"
\* C20: for every choice either detector produces, an auto-mode tick sends:
\* y then Enter if y is among the options; otherwise one Enter if the option
\* is enter; otherwise the first numbered option (1) then Enter; nothing
\* when there is no choice.  The keys are the same for both daemons.
C20_AutoResponsePolicy ==
    [][(ret'.op = "tick" /\ daemon.mode = "auto") =>
          LET c == detectChoice(daemon.agent, cleanOutput(session.file))
          IN  /\ c = NoChoice => session'.keys = <<>>
              /\ "y" \in Options(c) => session'.keys = <<"y", "Enter">>
              /\ ("y" \notin Options(c) /\ "enter" \in Options(c)) =>
                    session'.keys = <<"Enter">>
              /\ (c # NoChoice /\ "y" \notin Options(c) /\ "enter" \notin Options(c)) =>
                    /\ c.options[1] = "1"
                    /\ session'.keys = <<"1", "Enter">>]_vars

\* C20 witness: the gemini daemon in auto mode has just answered a list of
\* four numbered options with 1 and Enter.
C20_Witness ==
    /\ ret.op = "tick"
    /\ daemon.agent = "gemini"
    /\ daemon.mode = "auto"
    /\ daemon.choice.options = <<"1", "2", "3", "4">>
    /\ session.keys = <<"1", "Enter">>
\* ---- C21
\* fragments in which none of the detector's patterns, of either daemon, occur
NoPattern(f) ==
    /\ f \notin YesNoBracket \cup AllowDenyPermit \cup PressEnter \cup HitEnter \cup ContinueQ
    /\ f # "Type yes/no\n"
    /\ NumberedIn(f) = 0
\* the text is made of numbered-list lines only
NumberedOnly(out) == out # <<>> /\ \A i \in 1..Len(out) : NumberedIn(out[i]) > 0
\* a rule that detectChoice tries before the numbered-list rule matches
HigherPriority(agent, out) ==
    \/ Has(out, YesNoBracket)
    \/ agent # "gemini" /\ Has(out, AllowDenyPermit) /\ Has(out, QuestionMark)
Ticked == daemon.polls > 0
\* the tick's classification of text ending in "(y/n)" and of prose
C21_EndAndProse ==
    Ticked =>
       LET out == daemon.cleanOutput
       IN  /\ (out # <<>> /\ out[Len(out)] \in YesNoBracket)
                => daemon.choice.options = <<"y", "n">>
           /\ (\A i \in 1..Len(out) : NoPattern(out[i])) => daemon.choice = NoChoice
\* every later tick over the same text classifies it as the tick before did
C21_SameTextSameChoice ==
    (Ticked /\ daemon'.cleanOutput = daemon.cleanOutput) => daemon'.choice = daemon.choice

C22_SendKeyNeedsRunning ==
    [][(ret'.op = "sendKey" /\ ~daemon.isRunning) =>
          /\ ret'.val = "NotRunning"
          /\ session'.keys = <<>>
          /\ session'.cmds = <<>>]_vars

\* sendKey has been refused on a daemon that was stopped while its session
\* was there
C22_Witness ==
    /\ ret.op = "sendKey"
    /\ ret.val = "NotRunning"
    /\ ~daemon.isRunning
    /\ daemon.phase = "sleeping"
\* ---- C23
Ran(cmds, name) == \E i \in 1..Len(cmds) : cmds[i][1] = name
PromptStep == ret'.op = "sendPrompt"
\* C23: sendPrompt sends the prompt keys only while the daemon is marked
\* running, and when the session cannot be started (the daemon was not
\* marked running and start() left it so) it fails with a daemon error, the
\* task ends failed, and neither the output file is cleared nor a key sent.
C23_PromptNeedsStartedSession ==
    [][PromptStep =>
          /\ session'.keys # <<>> => daemon'.isRunning
          /\ (~daemon.isRunning /\ ~daemon'.isRunning /\ daemon'.phase # "starting") =>
                /\ ret'.val = "DaemonError"
                /\ tasks'[ret'.id].status = "failed"
                /\ ~Ran(session'.cmds, "clear")
                /\ session'.keys = <<>>]_vars
\* ---- C24
\* C24: a start(), called by a collaborator or by sendPrompt, whose query
\* finds the named session marks the daemon running, returns true and runs
\* no new-session command; and under any order of start, sendPrompt and stop
\* calls a session is launched only when none of that name exists.
C24_StartAttaches ==
    [][/\ (ret'.op \in {"start", "sendPrompt"} /\ Ran(session'.cmds, "list")
             /\ session'.cmds[1] = Cmd("list", "found")) =>
             /\ daemon'.isRunning
             /\ ~Ran(session'.cmds, "new-session")
             /\ ret'.op = "start" => ret'.val = "true"
       /\ (ret'.op \in {"start", "sendPrompt"}
             /\ \E i \in 1..Len(session'.cmds) : session'.cmds[i] = Cmd("new-session", "ok")) =>
             /\ ~session.exists
             /\ session'.exists]_vars

\* start() has attached to the session an earlier start() launched
C24_Witness ==
    /\ ret = Ret("start", 0, "true")
    /\ session.cmds = <<Cmd("list", "found")>>
    /\ session.exists
    /\ daemon.isRunning
\* ---- C25
\* C25: stop() returns normally whatever its command does, and the daemon is
\* marked not-running when it has returned, also when the command that
\* destroys the session fails.
C25_StopLeavesNotRunning ==
    [][ret'.op = "stop" => (ret'.val = "void" /\ ~daemon'.isRunning)]_vars
\* ---- C26
\* C26: a sendPrompt called while another call is in its loop is not held
\* back: it clears the output file both calls read, and leaves the other
\* call's baseline and stability bookkeeping as it was, so that the other
\* call goes on reading the new contents against its old baseline.  (The
\* witness is a call that returned the answer to the other prompt.)
C26_SecondPromptClearsSharedFile ==
    [][\A i \in PromptIds :
          (daemon[i].phase = "idle" /\ daemon'[i].phase = "sleeping") =>
             /\ session'.file = <<>>
             /\ \A j \in PromptIds \ {i} : daemon'[j] = daemon[j]]_vars

\* task 1 has completed with the answer to the prompt of task 2 and without
\* its own: the second call cleared the file while the first was in its loop
C26_Witness ==
    /\ Len(tasks) = 2
    /\ tasks[1].status = "completed"
    /\ tasks[1].output = <<Response(2)>>
    /\ call[1].result = <<Response(2)>>
    /\ daemon[2].phase # "idle"
\* ---- C27
ExecutorEvents == {"stdout", "stderr", "close", "error", "timeout", "cancelTask"}
\* C27: an event of the executor of one task (output, error, complete,
\* close, timeout) or a cancelTask on it leaves the status, progress, output
\* and error of every other task, whether its executor is tracked, and that
\* executor and its process as they were.
C27_OtherTasksUntouched ==
    [][ret'.op \in ExecutorEvents =>
          \A j \in DOMAIN tasks \ {ret'.id} :
             /\ tasks'[j] = tasks[j]
             /\ (j \in executors') = (j \in executors)
             /\ exec'[j] = exec[j]
             /\ proc'[j] = proc[j]
             /\ call'[j] = call[j]]_vars

\* task 1 was cancelled while task 2 runs on with the output it had
\* streamed, its executor tracked and its process untouched
C27_Witness ==
    /\ Len(tasks) = 2
    /\ ret = Ret("cancelTask", 1, "true")
    /\ tasks[1].status = "cancelled"
    /\ proc[1].signal = "term"
    /\ proc[2].signal = "none"
    /\ tasks[2].status = "running"
    /\ tasks[2].output = <<"hi">>
    /\ 2 \in executors
C29_ReturnedRecordsAreSnapshots ==
    /\ [][ret'.op # "write" => \A h \in handles : tasks'[h.ref] = Read(h)]_vars
    /\ [][ret'.op = "write" => tasks' = tasks]_vars
\* ---- C30
\* the ids of the tasks created so far (tasks are never removed)
TaskIds(ts) == {ts[i].id : i \in 1..Len(ts)}
\* C30: createTask adds exactly one task, pending, with progress 0 and empty
\* output, under an id no earlier task of the registry has, leaves the tasks
\* there were as they were, and emits tasksChanged once.
C30_CreateAddsOnePendingTask ==
    [][ret'.op = "createTask" =>
          LET new == tasks'[Len(tasks')]
          IN  /\ Len(tasks') = Len(tasks) + 1
              /\ new.status = "pending"
              /\ new.progress = 0
              /\ new.output = <<>>
              /\ new.id = ret'.id
              /\ new.id \notin TaskIds(tasks)
              /\ \A i \in DOMAIN tasks : tasks'[i] = tasks[i]
              /\ bus'.tasksChanged = 1
              /\ bus'.taskProgress = 0]_vars

\* a second task was created while the first one, completed, kept its
\* status, progress and output
C30_Witness ==
    /\ ret = Ret("createTask", 2, "task")
    /\ Len(tasks) = 2
    /\ tasks[1].status = "completed"
    /\ tasks[1].progress = ProgressDone
    /\ tasks[2].status = "pending"
    /\ bus.tasksChanged = 1
\* ---- C31
\* a tick of the loop ends in this step (it is not left waiting for the operator)
TickDone == ret'.op \in {"tick", "operatorAnswers"} /\ daemon'.phase # "asking"
\* the tick read the size and the cleaned text recorded for comparison
SameAsRecorded ==
    /\ daemon'.currentSize = daemon.lastSize
    /\ daemon'.cleanOutput = daemon.lastOutput
\* the tick resolved a choice: answered by the policy or by the operator
ChoiceResolved ==
    \/ ret'.op = "tick" /\ daemon.mode = "auto" /\ daemon'.choice # NoChoice
    \/ ret'.op = "operatorAnswers" /\ ret'.val # "undefined"

\* C31: the loop returns by the stability rule only at the end of a tick
\* that resolved no choice and read a size greater than the baseline, with
\* size and cleaned text equal to those recorded, the counter going from 3
\* to 4; the counter only ever moves by one, on such a tick; a tick whose
\* size or text differs, and a tick on which a choice was resolved, leave
\* the counter at 0; and a tick that reads the recorded size and text reads
\* what the tick before it read.
C31_StableReturnNeedsFourStableTicks ==
    [][/\ JustReturned("stable") =>
            /\ TickDone
            /\ ~ChoiceResolved
            /\ SameAsRecorded
            /\ daemon'.currentSize > daemon'.beforeSize
            /\ daemon.stableCount = StableTicks - 1
            /\ daemon'.stableCount = StableTicks
            /\ daemon'.result = daemon'.cleanOutput
       /\ (TickDone /\ (~SameAsRecorded \/ ChoiceResolved)) => daemon'.stableCount = 0
       /\ (TickDone /\ daemon'.stableCount # 0) =>
            /\ daemon'.stableCount = daemon.stableCount + 1
            /\ daemon'.currentSize > daemon'.beforeSize
       /\ (ret'.op = "tick" /\ SameAsRecorded /\ daemon'.currentSize > daemon'.beforeSize) =>
            /\ daemon.polls > 0
            /\ daemon'.currentSize = daemon.currentSize
            /\ daemon'.cleanOutput = daemon.cleanOutput]_vars

\* C31 witness: a tick that saw new output after two stable ticks has put
\* the counter back to 0.
C31_Witness ==
    /\ ret.op = "tick"
    /\ daemon.polls = 4
    /\ daemon.stableCount = 0
    /\ daemon.lastOutput = <<"done\n", "done\n">>
    /\ session.seen = 1
\* ---- C32
AllowRule(out) == Has(out, AllowDenyPermit) /\ Has(out, QuestionMark)
ContinueRule(agent, out) ==
    IF agent = "gemini" THEN Has(out, PressEnter) \/ Has(out, HitEnter)
    ELSE Has(out, PressEnter) \/ Has(out, ContinueQ)
OneToN(n) == [i \in 1..n |-> ToString(i)]

\* C32: the rules are tried in order and the first that matches decides: a
\* text with a bracketed y/n gives y, n whatever else it holds; for the
\* claude daemon allow/deny/permit with a question mark gives y, n before
\* the numbered-list rule is tried; for the gemini daemon that phrasing
\* decides nothing (without a bracketed y/n the result is never y, n, and is
\* what the later rules give); two or more numbered lines give 1..N before
\* the continue rule is tried; the continue rule gives enter; else no choice.
C32_FirstMatchingRuleWins ==
    Ticked =>
       LET out == daemon.cleanOutput
           a == daemon.agent
           c == daemon.choice
           allow == a # "gemini" /\ AllowRule(out)
       IN  /\ Has(out, YesNoBracket) => c.options = <<"y", "n">>
           /\ (~Has(out, YesNoBracket) /\ allow) =>
                 c = Choice(<<"y", "n">>, "Allow this action?")
           /\ (a = "gemini" /\ ~Has(out, YesNoBracket)) => c.options # <<"y", "n">>
           /\ (~Has(out, YesNoBracket) /\ ~allow /\ NumberedLines(out) >= 2) =>
                 c.options = OneToN(NumberedLines(out))
           /\ (~Has(out, YesNoBracket) /\ ~allow /\ NumberedLines(out) < 2
                 /\ ContinueRule(a, out)) => c.options = <<"enter">>
           /\ (~Has(out, YesNoBracket) /\ ~allow /\ NumberedLines(out) < 2
                 /\ ~ContinueRule(a, out)) => c = NoChoice

\* C32 witness: the gemini daemon has read an allow question followed by a
\* prompt to press Enter and found the choice enter.
C32_Witness ==
    /\ Ticked
    /\ daemon.agent = "gemini"
    /\ daemon.cleanOutput = <<"Allow edit?\n", "Press Enter\n">>
    /\ daemon.choice.options = <<"enter">>

\* ---- C33
\* C33 (as claimed): for both daemons a text with the phrase "yes/no" and no
\* bracketed y/n gives the options y, n, and a text with "press enter",
\* "hit enter" or "continue?" that no earlier rule matches gives the single
\* option enter.
C33_YesNoPhraseAndContinuePhrases ==
    Ticked =>
       LET out == daemon.cleanOutput
           c == daemon.choice
           earlier == \/ Has(out, YesNoBracket) \/ Has(out, YesNoPhrase)
                      \/ daemon.agent # "gemini" /\ AllowRule(out)
                      \/ NumberedLines(out) >= 2
       IN  /\ (Has(out, YesNoPhrase) /\ ~Has(out, YesNoBracket)) => c.options = <<"y", "n">>
           /\ ((Has(out, PressEnter) \/ Has(out, HitEnter) \/ Has(out, ContinueQ))
                 /\ ~earlier) => c.options = <<"enter">>
\* ---- C34
\* C34 (as claimed): in interactive mode the keys sent when the operator's
\* request ends are, for both daemons: none if the operator decided
\* nothing; the chosen option then one Enter for a yes/no or a numbered
\* choice; exactly one Enter for a confirmed continue prompt.
C34_KeysFollowOperatorDecision ==
    [][ret'.op = "operatorAnswers" =>
          /\ daemon.mode = "interactive"
          /\ ret'.val = "undefined" => session'.keys = <<>>
          /\ ret'.val \notin {"undefined", "enter"} => session'.keys = <<ret'.val, "Enter">>
          /\ ret'.val = "enter" => session'.keys = <<"Enter">>]_vars

\* ---- C35
\* C35 (as claimed): once a task's status is completed, failed or cancelled,
\* no later step changes its output, its progress or its error.
C35_TerminalRecordFrozen ==
    [][\A i \in DOMAIN tasks :
         tasks[i].status \in Terminal =>
            /\ tasks'[i].output = tasks[i].output
            /\ tasks'[i].progress = tasks[i].progress
            /\ tasks'[i].error = tasks[i].error]_vars
\* ---- C36
\* C36 (as claimed): in auto mode, a tick that reads the output unchanged
\* since an earlier tick of the call answered the choice in it sends no
\* keys to the session.
C36_AutoAnswersOnce ==
    [][(/\ ret'.op = "tick"
        /\ daemon.mode = "auto"
        /\ session.seen > 0
        /\ daemon.choice # NoChoice)
       => session'.keys = <<>>]_vars

\* ---- C37
\* C37 (as claimed): in auto mode, once a choice has been answered and the
\* output no longer changes, the call returns by the stability rule: it is
\* never still in its loop after the ticks that rule needs (the tick that
\* answered, the tick that recorded the output, and 4 stable ticks).
C37_AutoReturnsByStability ==
    (/\ daemon.mode = "auto"
     /\ InFlight
     /\ daemon.choice # NoChoice)
    => session.seen <= StableTicks + 1
\* ---- C40
\* C40 (as claimed): the keys of a prompt are sent only to a session whose
\* tool has had its warm-up interval: never while the sleep of the call
\* that launched the session is still going on.
C40_PromptWaitsForWarmUp ==
    [][(ret'.op = "sendPrompt" /\ session'.keys # <<>>) => session'.warming = Warm]_vars
\* ---- C38
\* C38 (as claimed): every process spawned by executeTask that is alive and
\* was not sent the termination signal belongs to the executor the map
\* holds under its task's id, also when executeTask is called again for
\* the same task.
C38_LiveProcessIsTracked ==
    \A k \in DOMAIN proc :
       (proc[k].state = "running" /\ proc[k].signal = "none") => k \in executors
\* ---- C39
\* C39: a task run on the CLI executor that is running is, some time later,
\* in a terminal status with its executeTask call settled, whatever the
\* process does (it may never exit, and may ignore the termination signal)
\* and whether or not cancelTask or dispose are called, provided timers
\* fire and queued callbacks run.
C39_RunningTaskSettles ==
    \A i \in Ids :
       (i \in DOMAIN tasks /\ tasks[i].status = "running" /\ call[i].strategy = "process")
       ~> (i \in DOMAIN tasks /\ tasks[i].status \in Terminal /\ Settled(i))

\* C39 witness: the task was cancelled, the process ignored the signal and
\* never exited, and the timer has settled the call.
C39_Witness ==
    /\ ret = Ret("timeout", 1, "void")
    /\ proc[1].state = "running"
    /\ proc[1].signal = "term"
    /\ exec[1].isRunning = FALSE
    /\ call[1].state = "rejected"
    /\ call[1].error = TimeoutError
    /\ tasks[1].status \in Terminal
    /\ 1 \notin executors
====
